---- MODULE Spec2Model ----
(***************************************************************************)
(* GoNetWatch: the spoofer package (NewEngine, GetMAC, Engine.Start,       *)
(* Engine.Stop, spoofLoop, sendSpoofPackets, cleanup, sendARP), the        *)
(* discovery package (Scan), the analysis package (TrafficStats,           *)
(* AnomalyDetector) and main, as state machines.                           *)
(*                                                                         *)
(* Spec      the spoofer package: one caller goroutine that runs           *)
(*           NewEngine (with its two GetMAC calls) and then any sequence   *)
(*           of Start() and Stop() calls, interleaved with the spoofLoop   *)
(*           goroutines that Start launches.                               *)
(* SpecGetMAC  one GetMAC call on its own, for any IP string, with the    *)
(*           reply loop's step weakly fair.                                *)
(* SpecScan  the discovery package: one Scan call, its reader and its      *)
(*           collector goroutine, and the context's cancellation.          *)
(* SpecScanFair  the same, with every goroutine scheduled.                  *)
(* SpecScanCap  Scan's probe loop on subnets larger than the probe cap.     *)
(* SpecStats  the analysis package: two goroutines in                       *)
(*           TrafficStats.ProcessPacket, the readers, and time.             *)
(* SpecAtomic  the same with ProcessPacket's updates as separate steps     *)
(*           under s.mu.                                                    *)
(* SpecMemory  ProcessPacket and the readers with the slices s.domainLog,   *)
(*           ad.alerts and the returned lists as headers and backing       *)
(*           arrays.                                                        *)
(* SpecFields  ProcessPacket on records that lack fields.                   *)
(* SpecLimits  GetTopTalkers and GetRecentAlerts with limits of any sign.   *)
(* SpecTalkers  ProcessPacket, GetRates and GetTopTalkers on one capture.   *)
(* SpecDomains, SpecDomainLog  ProcessPacket and the domain log.            *)
(* SpecStorm, SpecUnsecure, SpecDoS  AnomalyDetector.ProcessPacket on its   *)
(*           own.                                                           *)
(* SpecAlerts  ProcessPacket and GetRecentAlerts on a full alert history.   *)
(* SpecCleanup  ProcessPacket with a cleanup pass every second.             *)
(* SpecWindow, SpecThresholds  ProcessPacket on detectors with small        *)
(*           thresholds, around the end of a window and past a threshold.  *)
(* SpecProtocols  ProcessPacket and GetProtocolStats.                       *)
(* SpecCapture  ProcessPacket on the records convertToModel makes.          *)
(* SpecMain  main in MITM mode: IP forwarding, NewEngine, Start, the        *)
(*           deferred Stop and DisableIPForwarding, and log.Fatalf.        *)
(*                                                                         *)
(* Time in GetMAC is counted in polling intervals of 100ms, time in the     *)
(* analysis package in ticks of 1/TicksPerSecond of a second.               *)
(***************************************************************************)
EXTENDS Integers, Sequences, FiniteSets, TLC

\* ------------------------------------------------------------------ bounds
\* Start() calls made by the caller
MaxStarts == 2
\* Stop() calls made by the caller
MaxStops == 2
\* ticks of the 2s ticker handled over all spoofLoop goroutines
MaxTicks == 2
\* packets GetMAC reads at one instant without time advancing
MaxBurst == 1
\* host bits of the largest subnet Scan is run on (addresses have one bit more)
MaxHostBits == 2
\* ARP requests of one Scan that sendARPRequest fails to write
MaxSendErrors == 1
\* records the capture delivers in a run that watches the broadcast window
MaxWindowRecords == 4
\* seconds such a run lasts
WindowSeconds == 2
\* records the capture delivers in a run that drives counters past thresholds
MaxThresholdRecords == 6
\* records the capture delivers in a run that watches the protocol counts
MaxProtocolRecords == 4
\* packets of a capture that tshark reports a host name field for
MaxCaptureRecords == 2
\* bits of an IPv4 address
AddrBits == 16
\* host bits of the subnet Scan is run on with no configuration, which has more
\* addresses than the default cap
CapHostBits == 13
\* host bits of the subnet Scan is run on with a configured cap, which has more
\* addresses than the caps tried
FloorHostBits == 10

\* ticks of the clock of the analysis package in a second
TicksPerSecond == 2
\* records the capture delivers to TrafficStats.ProcessPacket in a run
MaxRecords == 3
\* records two goroutines deliver to ProcessPacket at the same time
MaxConcurrent == 2
\* records with a port, a protocol and a host name delivered in a run
MaxDomainRecords == 2
\* records delivered in a run that fills the domain log and goes past its end
MaxLogRecords == 52
\* records without a host name at the start of such a run
MaxUnnamed == 2
\* broadcast records delivered to the detector in a run
MaxBroadcasts == 51
\* seconds such a run may last
StormSeconds == 3
\* records delivered to the detector in a run with plaintext traffic
MaxUnsecureRecords == 2
\* seconds such a run may last
UnsecureSeconds == 11
\* ticks that pass while the statistics are kept
MaxClock == 1
\* records one source sends to the detector in a run with a flood
MaxFlood == 501
\* records another source sends in such a run
MaxOthers == 1
\* records delivered to a detector whose cleanup passes come every second
MaxCleanupRecords == 3
\* seconds such a run may last
CleanupSeconds == 3
\* records delivered in a run with records that lack fields
MaxFieldRecords == 2
\* records delivered in a run whose readers are called with any limit
MaxLimitRecords == 2
\* records delivered in a run that follows the slices in memory
MaxMemoryRecords == 3
\* backing arrays in memory at one time
MaxArrays == 4
\* records delivered to a detector that raises an alert for each
MaxAlertRecords == 21

\* --------------------------------------------------------- program constants
\* GetMAC: timeout := 3 * time.Second, in polling intervals of 100ms
Timeout == 30
\* GetMAC: case <-time.After(100 * time.Millisecond), one polling interval
PollInterval == 1
\* cleanup: for i := 0; i < 3; i++
CleanupRounds == 3
\* applyDefaults: MaxHosts: 4096 when no config is given
DefaultMaxHosts == 4096
\* applyDefaults: out.MaxHosts = 512, a sane minimum if capped
MinMaxHosts == 512

\* --------------------------------------------------------------- addresses
TargetIP == "targetIP"
GatewayIP == "gatewayIP"
OtherIP == "otherIP"
LocalIP == "localIP"
HostMAC == "hostMAC"
BroadcastMAC == "ff:ff:ff:ff:ff:ff"
ZeroMAC == "00:00:00:00:00:00"
NoMAC == "nil"
\* the hosts on the wire while GetMAC polls: the target, the gateway, a third host,
\* and a host that answers for the target's IP with its own hardware address
Senders == {[spa |-> TargetIP, sha |-> "macT"], [spa |-> GatewayIP, sha |-> "macG"],
            [spa |-> OtherIP, sha |-> "macX"], [spa |-> TargetIP, sha |-> "macX"]}

ARPRequest == 1
ARPReply == 2
\* a packet without an ARP layer
NoARP == 0

VARIABLES
  \* ---- the caller goroutine
  callerPC,      \* where the caller is: between calls, inside NewEngine/GetMAC, inside Stop
  newEngine,     \* NewEngine's locals targetMAC and gatewayMAC, and the error it returned
  \* ---- GetMAC (one call in progress at a time)
  getmac,        \* the call in progress or last returned: pc, ip, valid (ipStr parses),
                 \* sent (frames written), elapsed, burst, last (the last packet read),
                 \* mac and err (what it returned)
  requests,      \* ARP request frames written by GetMAC, in order
  \* ---- Engine
  engine,        \* the *Engine NewEngine returned: NoEngine or its address fields
  isRunning,     \* Engine.isRunning
  stopChan,      \* Engine.stopChan: "open" | "closed"
  handle,        \* Engine.handle: 0 (nil) or the id of a pcap handle
  handles,       \* pcap handles opened by Start: id -> "unopened" | "open" | "closed"
  tasks,         \* spoofLoop goroutines: id -> "none" | "select" | "send1" | "send2" | "done"
  round,         \* cleanup's loop variable i
  crashed,       \* "" or the panic that ended the process
  hist,          \* history of the calls and of the frames written to e.handle
  \* ---- discovery.Scan
  scanPC,          \* where Scan's own goroutine is
  ctxDone,         \* ctx.Done() is closed
  config,          \* applyDefaults(cfg)
  localIP,         \* the interface's IPv4 address
  hostBits,        \* the zero bits of localNet.Mask
  currentIP,       \* the probe loop's address
  first,           \* the probe loop's flag for the network address
  scanned,         \* requests sent
  probes,          \* the addresses ARP requests were written for, in order
  scanHandle,      \* Scan's pcap handle: "open" | "closed"
  doneChan,        \* "open" | "closed"
  hostsChan,       \* "open" | "closed" (unbuffered)
  readerPC,        \* the capture reader goroutine
  readerHost,      \* the Host the reader is sending
  collectorPC,     \* the result collector goroutine
  collectorHost,   \* the Host the collector has received
  discoveredHosts, \* the map of unique hosts, as a set of Hosts with distinct IPs
  result,          \* the []Host Scan returned
  scanErr,         \* the error Scan returned
  scanPanic,       \* "" or the panic that ended the process
  scanHist         \* history: cfg, the cfg argument of the call; firedAfter, the
                   \* requests sent when the context was cancelled; sawCancel,
                   \* the select that took <-ctx.Done(); sendErrors, the
                   \* requests that failed; firstReply, for each IP the Host
                   \* of the first reply the reader kept
  ,
  \* ---- analysis.TrafficStats and analysis.AnomalyDetector
  clock,           \* time.Now(), in ticks
  traffic,         \* the kind of records the capture delivers in this run
  stats,           \* the fields of the *TrafficStats
  statsPC,         \* for each goroutine, where it is in TrafficStats.ProcessPacket
  statsPkt,        \* for each goroutine, the pkt of its ProcessPacket call
  statsOut,        \* what the GetRates, GetTopTalkers, GetProtocolStats, GetDomainLog
                   \* or GetAlerts call that was the last step returned
  statsHist,       \* history: processed, the records ProcessPacket has counted, in
                   \* order; reported, the sum of the window bytes GetRates has
                   \* returned a rate for; resetAt, the records counted when
                   \* GetRates last reset the window
  ad,              \* the fields of the *AnomalyDetector
  adHist,          \* history: raised, every Alert passed to addAlert, in order;
                   \* seen, the records the detector has processed, each with
                   \* the instant it was processed at, in order
  mem              \* the slices of the two objects in memory: heap, the backing
                   \* arrays; domainLog and alerts, the slice headers in
                   \* s.domainLog and ad.alerts; ret, the header of the list a
                   \* reader returned last, which its caller holds
  ,
  \* ---- main
  main             \* the program's main function in MITM mode: pc, where it is;
                   \* forwarding, net.ipv4.ip_forward as the program has set it;
                   \* defers, its deferred calls, the last one first; exit, how
                   \* the process ended

spooferVars == <<callerPC, newEngine, getmac, requests, engine, isRunning, stopChan,
                 handle, handles, tasks, round, crashed, hist>>

\* the variables of the other packages, which no spoofer action changes
scanVars == <<scanPC, ctxDone, config, localIP, hostBits, currentIP, first, scanned, probes,
              scanHandle, doneChan, hostsChan, readerPC, readerHost, collectorPC,
              collectorHost, discoveredHosts, result, scanErr, scanPanic, scanHist>>

analysisVars ==
  <<clock, traffic, stats, statsPC, statsPkt, statsOut, statsHist, ad, adHist, mem>>

notSpoofer == <<scanVars, analysisVars, main>>

\* the variables no action of Scan and of its goroutines changes
notScan == <<spooferVars, analysisVars, main>>

\* the variables of the other packages
notMemory == <<spooferVars, scanVars, main>>

\* the variables no action of the analysis package on the values of its fields
\* changes
notAnalysis == <<notMemory, mem>>

engineVars == <<engine, isRunning, stopChan, handle, handles, tasks, round, crashed, hist>>

vars == <<spooferVars, notSpoofer>>

\* ------------------------------------------------------------------ GetMAC
NoPacket == [op |-> NoARP, spa |-> "", sha |-> NoMAC]

\* what the capture may deliver while GetMAC polls: ARP requests and replies of
\* any sender, and packets without an ARP layer
Packets ==
  {[op |-> o, spa |-> h.spa, sha |-> h.sha] : o \in {ARPRequest, ARPReply}, h \in Senders}
    \cup {NoPacket}

\* the ARP request GetMAC builds for targetIP
ARPRequestFrame(targetIP) ==
  [srcMAC |-> HostMAC, dstMAC |-> BroadcastMAC, op |-> ARPRequest,
   sha |-> HostMAC, spa |-> LocalIP, tha |-> ZeroMAC, tpa |-> targetIP]

IsAnyReply(p, targetIP) == p.op # NoARP /\ p.op = ARPReply

\* a reply for us and from the target IP
IsReplyFrom(p, targetIP) == p.op # NoARP /\ p.op = ARPReply /\ p.spa = targetIP

\* if time.Since(start) > timeout
TimedOut(elapsed) == elapsed > Timeout

GetMACIdle ==
  [pc |-> "idle", ip |-> "", valid |-> TRUE, sent |-> 0, elapsed |-> 0, burst |-> 0,
   last |-> NoPacket, mac |-> NoMAC, err |-> ""]

GetMACReturn(g, mac, err) == [g EXCEPT !.pc = "ret", !.mac = mac, !.err = err]

\* the errors GetMAC returns after ipStr parsed and before it polls
GetMACSetupErrors == {"failed to get interface", "failed to open handle",
                      "failed to get interface addresses",
                      "could not determine source IP for interface",
                      "failed to serialize packet", "failed to write packet"}

\* GetMAC up to and including the write of the request: ipStr may not parse, and
\* the interface lookup, the capture open, the address lookup, the serialization
\* and the write may fail
GetMACSetup ==
  /\ getmac.pc = "setup"
  /\ \E outcome \in {"ok"} \cup GetMACSetupErrors :
       IF ~getmac.valid
       THEN /\ getmac' = GetMACReturn(getmac, NoMAC, "invalid IP address")
            /\ UNCHANGED requests
       ELSE IF outcome # "ok"
       THEN /\ getmac' = GetMACReturn(getmac, NoMAC, outcome)
            /\ UNCHANGED requests
       ELSE /\ getmac' = [getmac EXCEPT !.pc = "poll", !.sent = 1, !.elapsed = 0]
            /\ requests' = Append(requests, ARPRequestFrame(getmac.ip))
  /\ UNCHANGED <<callerPC, newEngine, engineVars, notSpoofer>>

PollTimerResends(g) == [g EXCEPT !.elapsed = @ + PollInterval, !.burst = 0, !.sent = @ + 1]

\* case <-time.After(100 * time.Millisecond): continue
PollTimer(g) == [g EXCEPT !.elapsed = @ + PollInterval, !.burst = 0]

\* one iteration of the reply loop: the deadline check, then the select on the
\* packet source and the 100ms timer
GetMACPoll ==
  /\ getmac.pc = "poll"
  /\ IF TimedOut(getmac.elapsed)
     THEN getmac' = GetMACReturn(getmac, NoMAC, "timeout waiting for ARP reply")
     ELSE \/ \E p \in Packets, d \in 0..PollInterval :
               /\ d = 0 => getmac.burst < MaxBurst
               /\ LET g == [getmac EXCEPT !.elapsed = @ + d,
                                          !.burst = IF d = 0 THEN @ + 1 ELSE 0,
                                          !.last = p]
                  IN  getmac' = IF IsReplyFrom(p, getmac.ip)
                                THEN GetMACReturn(g, p.sha, "")
                                ELSE g
          \/ getmac' = PollTimer(getmac)
  /\ UNCHANGED <<callerPC, newEngine, requests, engineVars, notSpoofer>>

\* --------------------------------------------------------------- NewEngine
\* no engine: NewEngine has not returned one
NoEngine == [TargetIP |-> "", GatewayIP |-> "", TargetMAC |-> NoMAC, GatewayMAC |-> NoMAC,
             HostMAC |-> NoMAC]

GetMACCall(ip) == [GetMACIdle EXCEPT !.pc = "setup", !.ip = ip]

\* NewEngine up to its call of GetMAC for the target
NewEngine ==
  /\ callerPC = "new"
  /\ \E targetOK \in BOOLEAN, gatewayOK \in BOOLEAN, ifaceOK \in BOOLEAN :
       IF ~targetOK \/ ~gatewayOK
       THEN /\ newEngine' = [newEngine EXCEPT !.err = "invalid IP addresses"]
            /\ callerPC' = "failed"
            /\ UNCHANGED getmac
       ELSE IF ~ifaceOK
       THEN /\ newEngine' = [newEngine EXCEPT !.err = "failed to get interface"]
            /\ callerPC' = "failed"
            /\ UNCHANGED getmac
       ELSE /\ callerPC' = "resolve target"
            /\ getmac' = GetMACCall(TargetIP)
            /\ UNCHANGED newEngine
  /\ UNCHANGED <<requests, engineVars, notSpoofer>>

ResolveFailedIgnored(g) == FALSE

\* if err != nil after a GetMAC call
ResolveFailed(g) == g.err # ""

\* GetMAC(targetIPStr) has returned; on success NewEngine calls GetMAC(gatewayIPStr)
NewEngineTarget ==
  /\ callerPC = "resolve target"
  /\ getmac.pc = "ret"
  /\ IF ResolveFailed(getmac)
     THEN /\ newEngine' = [newEngine EXCEPT !.err = "failed to resolve target MAC"]
          /\ callerPC' = "failed"
          /\ UNCHANGED getmac
     ELSE /\ newEngine' = [newEngine EXCEPT !.targetMAC = getmac.mac]
          /\ callerPC' = "resolve gateway"
          /\ getmac' = GetMACCall(GatewayIP)
  /\ UNCHANGED <<requests, engineVars, notSpoofer>>

\* GetMAC(gatewayIPStr) has returned; on success NewEngine returns the engine
NewEngineGateway ==
  /\ callerPC = "resolve gateway"
  /\ getmac.pc = "ret"
  /\ IF ResolveFailed(getmac)
     THEN /\ newEngine' = [newEngine EXCEPT !.err = "failed to resolve gateway MAC"]
          /\ callerPC' = "failed"
          /\ UNCHANGED <<engine, getmac>>
     ELSE /\ newEngine' = [newEngine EXCEPT !.gatewayMAC = getmac.mac]
          /\ engine' = [TargetIP |-> TargetIP, GatewayIP |-> GatewayIP,
                        TargetMAC |-> newEngine.targetMAC, GatewayMAC |-> getmac.mac,
                        HostMAC |-> HostMAC]
          /\ callerPC' = "idle"
          /\ getmac' = GetMACIdle
  /\ UNCHANGED <<requests, isRunning, stopChan, handle, handles, tasks, round, crashed,
                 hist, notSpoofer>>

\* ------------------------------------------------------------------ Engine
\* the frame sendARP(srcMAC, srcIP, dstMAC, dstIP) serializes: always an ARP reply
sendARP(srcMAC, srcIP, dstMAC, dstIP) ==
  [srcMAC |-> srcMAC, dstMAC |-> dstMAC, op |-> ARPReply,
   sha |-> srcMAC, spa |-> srcIP, tha |-> dstMAC, tpa |-> dstIP]

\* sendSpoofPackets: tell Target that WE are the Gateway
SpoofTargetFrame(e) == sendARP(e.HostMAC, e.GatewayIP, e.TargetMAC, e.TargetIP)
\* sendSpoofPackets: tell Gateway that WE are the Target
SpoofGatewayFrame(e) == sendARP(e.HostMAC, e.TargetIP, e.GatewayMAC, e.GatewayIP)
\* cleanup: tell Target the REAL Gateway MAC
RestoreTargetFrame(e) == sendARP(e.GatewayMAC, e.GatewayIP, e.TargetMAC, e.TargetIP)
\* cleanup: tell Gateway the REAL Target MAC
RestoreGatewayFrame(e) == sendARP(e.TargetMAC, e.TargetIP, e.GatewayMAC, e.GatewayIP)

\* what e.handle.WritePacketData can do: a nil handle panics; an open handle sends
\* or returns an error; a closed handle has had its pcap_t freed, and the write
\* either returns an error or crashes
WriteResults(h) ==
  IF h = 0 THEN {"nil handle"}
  ELSE IF handles[h] = "open" THEN {"ok", "error"}
  ELSE {"error", "closed handle"}

\* a write that ended the process
IsCrash(r) == r \in {"nil handle", "closed handle"}

\* whether the write goes to a handle that Close() has been called on
OnClosed == handle # 0 /\ handles[handle] = "closed"

StartIds == 1..MaxStarts

\* the goroutines of spoofLoop that have not returned
Live == {t \in StartIds : tasks[t] \in {"select", "send1", "send2"}}

\* Start: open the handle, mark running, launch spoofLoop
Start ==
  /\ callerPC = "idle" /\ engine # NoEngine /\ crashed = ""
  /\ hist.starts < MaxStarts
  /\ LET id == hist.starts + 1 IN
     \E opened \in BOOLEAN :
       IF opened
       THEN /\ handle' = id
            /\ handles' = [handles EXCEPT ![id] = "open"]
            /\ isRunning' = TRUE
            /\ tasks' = [tasks EXCEPT ![id] = "select"]
       ELSE \* e.handle, err = pcap.OpenLive(...) has assigned the nil handle
            /\ handle' = 0
            /\ UNCHANGED <<handles, isRunning, tasks>>
  /\ hist' = [hist EXCEPT !.starts = @ + 1]
  /\ UNCHANGED <<callerPC, newEngine, getmac, requests, engine, stopChan, round, crashed,
                 notSpoofer>>

\* spoofLoop: case <-e.stopChan: return
LoopStop(t) ==
  /\ tasks[t] = "select" /\ crashed = ""
  /\ stopChan = "closed"
  /\ tasks' = [tasks EXCEPT ![t] = "done"]
  /\ UNCHANGED <<callerPC, newEngine, getmac, requests, engine, isRunning, stopChan,
                 handle, handles, round, crashed, hist, notSpoofer>>

\* spoofLoop: case <-ticker.C: (select takes any ready case)
LoopTick(t) ==
  /\ tasks[t] = "select" /\ crashed = ""
  /\ hist.ticks < MaxTicks
  /\ tasks' = [tasks EXCEPT ![t] = "send1"]
  /\ hist' = [hist EXCEPT !.ticks = @ + 1, !.tickLog[t] = <<>>]
  /\ UNCHANGED <<callerPC, newEngine, getmac, requests, engine, isRunning, stopChan,
                 handle, handles, round, crashed, notSpoofer>>

AfterTickErrorReturns == "done"

\* spoofLoop after sendSpoofPackets returned an error: log it and go on
AfterTickError == "select"

AfterSpoofTargetGoesOn(r) == "send2"

\* sendSpoofPackets after its first sendARP: return err, or go on to the second
AfterSpoofTarget(r) == IF r = "ok" THEN "send2" ELSE AfterTickError

\* the history after task t wrote frame with result r
TickWrote(t, frame, r) ==
  [hist EXCEPT !.tickLog[t] = Append(@, [frame |-> frame, res |-> r]),
               !.failedTicks = IF r = "error" THEN @ + 1
                               ELSE IF frame.tpa = GatewayIP THEN 0 ELSE @,
               !.wroteClosed = @ \/ OnClosed]

\* sendSpoofPackets: the frame to the target
SpoofTarget(t) ==
  /\ tasks[t] = "send1" /\ crashed = ""
  /\ \E r \in WriteResults(handle) :
       /\ hist' = TickWrote(t, SpoofTargetFrame(engine), r)
       /\ IF IsCrash(r)
          THEN crashed' = r /\ UNCHANGED tasks
          ELSE tasks' = [tasks EXCEPT ![t] = AfterSpoofTarget(r)] /\ UNCHANGED crashed
  /\ UNCHANGED <<callerPC, newEngine, getmac, requests, engine, isRunning, stopChan,
                 handle, handles, round, notSpoofer>>

\* sendSpoofPackets: the frame to the gateway
SpoofGateway(t) ==
  /\ tasks[t] = "send2" /\ crashed = ""
  /\ \E r \in WriteResults(handle) :
       /\ hist' = TickWrote(t, SpoofGatewayFrame(engine), r)
       /\ IF IsCrash(r)
          THEN crashed' = r /\ UNCHANGED tasks
          ELSE tasks' = [tasks EXCEPT ![t] = IF r = "ok" THEN "select" ELSE AfterTickError]
               /\ UNCHANGED crashed
  /\ UNCHANGED <<callerPC, newEngine, getmac, requests, engine, isRunning, stopChan,
                 handle, handles, round, notSpoofer>>

StopNeverReturnsEarly == FALSE

\* Stop: if !e.isRunning { return }
StopReturnsEarly == ~isRunning

\* Stop up to its sleep: the isRunning check, close(e.stopChan), isRunning = false
Stop ==
  /\ callerPC = "idle" /\ engine # NoEngine /\ crashed = ""
  /\ hist.stops < MaxStops
  /\ IF StopReturnsEarly
     THEN /\ hist' = [hist EXCEPT !.stops = @ + 1]
          /\ UNCHANGED <<callerPC, isRunning, stopChan, crashed>>
     ELSE IF stopChan = "closed"
     THEN /\ crashed' = "close of closed channel"
          /\ hist' = [hist EXCEPT !.stops = @ + 1, !.stopCall = "panicked",
                                  !.restoreLog = <<>>, !.restoreFailed = FALSE]
          /\ UNCHANGED <<callerPC, isRunning, stopChan>>
     ELSE /\ stopChan' = "closed"
          /\ isRunning' = FALSE
          /\ callerPC' = "stop sleep"
          /\ hist' = [hist EXCEPT !.stops = @ + 1, !.stopCall = "running",
                                  !.restoreLog = <<>>, !.restoreFailed = FALSE]
          /\ UNCHANGED crashed
  /\ UNCHANGED <<newEngine, getmac, requests, engine, handle, handles, tasks, round,
                 notSpoofer>>

\* Stop: time.Sleep(100ms), then cleanup begins with i := 0
StopSleep ==
  /\ callerPC = "stop sleep" /\ crashed = ""
  /\ callerPC' = "cleanup target"
  /\ round' = 0
  /\ UNCHANGED <<newEngine, getmac, requests, engine, isRunning, stopChan, handle,
                 handles, tasks, crashed, hist, notSpoofer>>

\* the history after cleanup wrote frame with result r
CleanupWrote(frame, r) ==
  [hist EXCEPT !.restoreLog = Append(@, frame),
               !.restoreFailed = @ \/ r # "ok",
               !.wroteClosed = @ \/ OnClosed,
               !.stopCall = IF IsCrash(r) THEN "panicked" ELSE @]

\* cleanup: _ = e.sendARP(e.GatewayMAC, e.GatewayIP, e.TargetMAC, e.TargetIP)
CleanupTarget ==
  /\ callerPC = "cleanup target" /\ crashed = ""
  /\ \E r \in WriteResults(handle) :
       /\ hist' = CleanupWrote(RestoreTargetFrame(engine), r)
       /\ IF IsCrash(r)
          THEN crashed' = r /\ UNCHANGED callerPC
          ELSE callerPC' = "cleanup gateway" /\ UNCHANGED crashed
  /\ UNCHANGED <<newEngine, getmac, requests, engine, isRunning, stopChan, handle,
                 handles, tasks, round, notSpoofer>>

\* cleanup: _ = e.sendARP(e.TargetMAC, e.TargetIP, e.GatewayMAC, e.GatewayIP)
CleanupGateway ==
  /\ callerPC = "cleanup gateway" /\ crashed = ""
  /\ \E r \in WriteResults(handle) :
       /\ hist' = CleanupWrote(RestoreGatewayFrame(engine), r)
       /\ IF IsCrash(r)
          THEN crashed' = r /\ UNCHANGED callerPC
          ELSE callerPC' = "cleanup sleep" /\ UNCHANGED crashed
  /\ UNCHANGED <<newEngine, getmac, requests, engine, isRunning, stopChan, handle,
                 handles, tasks, round, notSpoofer>>

\* cleanup: time.Sleep(100ms); i++; i < 3
CleanupSleep ==
  /\ callerPC = "cleanup sleep" /\ crashed = ""
  /\ round' = round + 1
  /\ callerPC' = IF round + 1 < CleanupRounds THEN "cleanup target" ELSE "close"
  /\ UNCHANGED <<newEngine, getmac, requests, engine, isRunning, stopChan, handle,
                 handles, tasks, crashed, hist, notSpoofer>>

\* Stop: if e.handle != nil { e.handle.Close() }, and Stop returns
StopClose ==
  /\ callerPC = "close" /\ crashed = ""
  /\ handles' = IF handle # 0 THEN [handles EXCEPT ![handle] = "closed"] ELSE handles
  /\ callerPC' = "idle"
  /\ hist' = [hist EXCEPT !.stopCall = "returned"]
  /\ UNCHANGED <<newEngine, getmac, requests, engine, isRunning, stopChan, handle,
                 tasks, round, crashed, notSpoofer>>

\* ------------------------------------------------------------------- main
\* main in MITM mode (-target and -gateway both given). callerPC is "main"
\* while main is not inside a call of the engine.

\* log.Fatalf: the message, then os.Exit(1); deferred calls do not run
Fatalf(m) == [m EXCEPT !.pc = "exited", !.exit = "fatal"]

\* the variables main's own steps leave alone
notMain == <<newEngine, getmac, requests, engineVars, scanVars, analysisVars>>

\* 1. spoofer.EnableIPForwarding(), then defer spoofer.DisableIPForwarding();
\* 2. main goes on to call spoofer.NewEngine
MainEnableIPForwarding ==
  /\ main.pc = "enable" /\ crashed = ""
  /\ \E ok \in BOOLEAN :
       IF ok
       THEN /\ main' = [main EXCEPT !.pc = "engine", !.forwarding = TRUE,
                                    !.defers = <<"DisableIPForwarding">> \o @]
            /\ callerPC' = "new"
       ELSE /\ main' = Fatalf(main)
            /\ UNCHANGED callerPC
  /\ UNCHANGED notMain

\* 2. NewEngine has returned an error
MainNewEngineFailed ==
  /\ main.pc = "engine" /\ callerPC = "failed" /\ crashed = ""
  /\ main' = Fatalf(main)
  /\ callerPC' = "main"
  /\ UNCHANGED notMain

\* 3. engine.Start(), called once
MainStart == main.pc = "engine" /\ hist.starts = 0 /\ Start

\* 3. Start has returned: its error ends the process, else defer engine.Stop()
MainStarted ==
  /\ main.pc = "engine" /\ callerPC = "idle" /\ hist.starts = 1 /\ crashed = ""
  /\ main' = IF isRunning
               THEN [main EXCEPT !.pc = "capture", !.defers = <<"engine.Stop">> \o @]
               ELSE Fatalf(main)
  /\ callerPC' = "main"
  /\ UNCHANGED notMain

\* tshark.StartCapture: its error ends the process
MainStartCapture ==
  /\ main.pc = "capture" /\ crashed = ""
  /\ \E ok \in BOOLEAN : main' = IF ok THEN [main EXCEPT !.pc = "tui"] ELSE Fatalf(main)
  /\ UNCHANGED <<callerPC, notMain>>

\* p.Run() returns, with an error or without: main returns and its deferred
\* calls run
MainRun ==
  /\ main.pc = "tui" /\ crashed = ""
  /\ main' = [main EXCEPT !.pc = "return", !.exit = "return"]
  /\ UNCHANGED <<callerPC, notMain>>

\* the deferred engine.Stop() is called
MainDeferredStop ==
  /\ main.pc = "return" /\ main.defers # <<>> /\ Head(main.defers) = "engine.Stop"
  /\ crashed = ""
  /\ main' = [main EXCEPT !.pc = "stop"]
  /\ callerPC' = "idle"
  /\ UNCHANGED notMain

MainStop == main.pc = "stop" /\ hist.stops = 0 /\ Stop

\* engine.Stop() has returned
MainStopReturned ==
  /\ main.pc = "stop" /\ callerPC = "idle" /\ hist.stops = 1 /\ crashed = ""
  /\ main' = [main EXCEPT !.pc = "return", !.defers = Tail(@)]
  /\ callerPC' = "main"
  /\ UNCHANGED notMain

\* the deferred spoofer.DisableIPForwarding(), its error dropped: the sysctl
\* that set the value to 1 is taken to set it to 0 as well
MainDeferredDisable ==
  /\ main.pc = "return" /\ main.defers # <<>>
  /\ Head(main.defers) = "DisableIPForwarding" /\ crashed = ""
  /\ main' = [main EXCEPT !.forwarding = FALSE, !.defers = Tail(@)]
  /\ UNCHANGED <<callerPC, notMain>>

\* no deferred call is left: the process ends
MainExit ==
  /\ main.pc = "return" /\ main.defers = <<>> /\ crashed = ""
  /\ main' = [main EXCEPT !.pc = "exited"]
  /\ UNCHANGED <<callerPC, notMain>>

\* the goroutines of spoofLoop run as long as the process does
MainLoopStop(t) == main.pc # "exited" /\ LoopStop(t)
MainLoopTick(t) == main.pc # "exited" /\ LoopTick(t)
MainSpoofTarget(t) == main.pc # "exited" /\ SpoofTarget(t)
MainSpoofGateway(t) == main.pc # "exited" /\ SpoofGateway(t)

\* -------------------------------------------------------------- discovery.Scan
\* IPv4 addresses are numbers of AddrBits bits, a mask is its count of zero
\* bits: with two host bits a subnet is a /30, with one a /31, with none a /32.

RECURSIVE Pow2(_)
Pow2(n) == IF n = 0 THEN 1 ELSE 2 * Pow2(n - 1)

Addresses == 0 .. (Pow2(AddrBits) - 1)

\* currentIP[i] &= mask[i]
NetworkOf(ip, bits) == ip - (ip % Pow2(bits))

\* broadcastIP[i] |= ^mask[i]
BroadcastOf(ip, bits) == NetworkOf(ip, bits) + Pow2(bits) - 1

\* localNet.Contains(ip)
Contains(ip) == NetworkOf(ip, hostBits) = NetworkOf(localIP, hostBits)

\* inc(ip): add one with carry, wrapping to zero past the last address
inc(ip) == (ip + 1) % Pow2(AddrBits)

\* the cfg arguments Scan is called with: nil, or a ScanConfig with MaxHosts
CfgInputs == {[isNil |-> TRUE, MaxHosts |-> 0]}
             \cup {[isNil |-> FALSE, MaxHosts |-> n] : n \in {0, 2}}

\* the interface addresses Scan is run with: the first two addresses and the
\* last one, which are network, host and broadcast addresses of the subnets
LocalIPs == {0, 1, Pow2(AddrBits) - 1}

applyDefaults(cfg) ==
  IF cfg.isNil THEN [isNil |-> FALSE, MaxHosts |-> DefaultMaxHosts]
  ELSE LET m1 == IF cfg.MaxHosts = 0 THEN -1
                 ELSE IF cfg.MaxHosts < 0 THEN -1 ELSE cfg.MaxHosts
           m2 == IF m1 > 0 /\ m1 < MinMaxHosts THEN MinMaxHosts ELSE m1
       IN [isNil |-> FALSE, MaxHosts |-> m2]

\* the ARP packets the capture can deliver: replies from the two addresses
\* after the network address (the second of them under two MACs), from the
\* local address and from the address after the broadcast address, and a request
ScanSenders == {inc(NetworkOf(localIP, hostBits)), inc(inc(NetworkOf(localIP, hostBits))),
                localIP, inc(BroadcastOf(localIP, hostBits))}

ScanPackets == [op : {ARPReply}, spa : ScanSenders, sha : {"macA"}]
               \cup [op : {ARPRequest, ARPReply},
                     spa : {inc(inc(NetworkOf(localIP, hostBits)))}, sha : {"macB"}]

ContextCanceled == "context canceled"

\* no Host value
NoHost == [IP |-> -1, MAC |-> NoMAC]

ScanLive == scanPanic = ""

\* the errors Scan returns before it starts its goroutines
SetupErrors == {"could not get interface", "could not get interface addresses",
                "no IPv4 address found on interface", "could not open handle",
                "could not set BPF filter"}

\* Scan up to the probe loop: applyDefaults, the interface, the handle, the
\* filter, the channels, the two goroutines, the network address
ScanSetup ==
  /\ scanPC = "call" /\ ScanLive
  /\ config' = applyDefaults(config)
  /\ \/ /\ \E e \in SetupErrors : scanErr' = e
        /\ scanPC' = "returned"
        /\ UNCHANGED <<scanHandle, readerPC, collectorPC, currentIP, first, scanned>>
     \/ /\ scanHandle' = "open"
        /\ readerPC' = "select"
        /\ collectorPC' = "recv"
        /\ currentIP' = NetworkOf(localIP, hostBits)
        /\ first' = TRUE
        /\ scanned' = 0
        /\ scanPC' = "probe"
        /\ UNCHANGED scanErr
  /\ UNCHANGED <<ctxDone, localIP, hostBits, probes, doneChan, hostsChan, readerHost,
                 collectorHost, discoveredHosts, result, scanPanic, scanHist>>
  /\ UNCHANGED notScan

\* the caller's context is cancelled or reaches its deadline
ScanCancel ==
  /\ scanPC \notin {"none", "returned"} /\ ScanLive
  /\ ~ctxDone
  /\ ctxDone' = TRUE
  /\ scanHist' = [scanHist EXCEPT !.firedAfter = scanned]
  /\ UNCHANGED <<scanPC, config, localIP, hostBits, currentIP, first, scanned, probes,
                 scanHandle, doneChan, hostsChan, readerPC, readerHost, collectorPC,
                 collectorHost, discoveredHosts, result, scanErr, scanPanic>>
  /\ UNCHANGED notScan

CapReachedLate == config.MaxHosts > 0 /\ scanned > config.MaxHosts

\* config.MaxHosts > 0 && scanned >= config.MaxHosts
CapReached == config.MaxHosts > 0 /\ scanned >= config.MaxHosts

SkipBroadcastOnly(ip) == ip = BroadcastOf(localIP, hostBits)

\* currentIP.Equal(broadcastIP) and currentIP.Equal(localIP): the addresses the
\* loop passes over after the first
SkipAddress(ip) == ip = BroadcastOf(localIP, hostBits) \/ ip = localIP

\* One pass of the probe loop: the loop condition, the cap, the select on the
\* context and the ticker, the three skips, sendARPRequest, and inc(currentIP).
ScanProbe ==
  /\ scanPC = "probe" /\ ScanLive
  /\ IF ~Contains(currentIP) \/ CapReached
     THEN /\ scanPC' = "wait"
          /\ UNCHANGED <<currentIP, first, scanned, probes, scanHandle, result, scanErr,
                         scanHist>>
     ELSE \/ \* case <-ctx.Done(): return nil, ctx.Err()
             /\ ctxDone
             /\ scanPC' = "returned"
             /\ result' = <<>>
             /\ scanErr' = ContextCanceled
             /\ scanHandle' = "closed"
             /\ scanHist' = [scanHist EXCEPT !.sawCancel = "tick"]
             /\ UNCHANGED <<currentIP, first, scanned, probes>>
          \/ \* case <-ticker.C:
             /\ currentIP' = inc(currentIP)
             /\ IF first
                THEN first' = FALSE /\ UNCHANGED <<scanned, probes, scanHist>>
                ELSE IF SkipAddress(currentIP)
                THEN UNCHANGED <<first, scanned, probes, scanHist>>
                ELSE \E sent \in BOOLEAN :
                       /\ sent \/ scanHist.sendErrors < MaxSendErrors
                       /\ scanned' = IF sent THEN scanned + 1 ELSE scanned
                       /\ probes' = IF sent THEN Append(probes, currentIP) ELSE probes
                       /\ scanHist' = IF sent THEN scanHist
                                      ELSE [scanHist EXCEPT !.sendErrors = @ + 1]
                       /\ UNCHANGED first
             /\ UNCHANGED <<scanPC, scanHandle, result, scanErr>>
  /\ UNCHANGED <<ctxDone, config, localIP, hostBits, doneChan, hostsChan, readerPC,
                 readerHost, collectorPC, collectorHost, discoveredHosts, scanPanic>>
  /\ UNCHANGED notScan

\* the idle wait: select on ctx.Done() and waitTimer.C
ScanWait ==
  /\ scanPC = "wait" /\ ScanLive
  /\ \/ ctxDone /\ scanHist' = [scanHist EXCEPT !.sawCancel = "wait"]
     \/ UNCHANGED scanHist
  /\ scanPC' = "close done"
  /\ UNCHANGED <<ctxDone, config, localIP, hostBits, currentIP, first, scanned, probes,
                 scanHandle, doneChan, hostsChan, readerPC, readerHost, collectorPC,
                 collectorHost, discoveredHosts, result, scanErr, scanPanic>>
  /\ UNCHANGED notScan

\* close(doneChan)
ScanCloseDone ==
  /\ scanPC = "close done" /\ ScanLive
  /\ doneChan' = "closed"
  /\ scanPC' = "close hosts"
  /\ UNCHANGED <<ctxDone, config, localIP, hostBits, currentIP, first, scanned, probes,
                 scanHandle, hostsChan, readerPC, readerHost, collectorPC,
                 collectorHost, discoveredHosts, result, scanErr, scanPanic, scanHist>>
  /\ UNCHANGED notScan

\* close(hostsChan)
ScanCloseHosts ==
  /\ scanPC = "close hosts" /\ ScanLive
  /\ hostsChan' = "closed"
  /\ scanPC' = "collect"
  /\ UNCHANGED <<ctxDone, config, localIP, hostBits, currentIP, first, scanned, probes,
                 scanHandle, doneChan, readerPC, readerHost, collectorPC,
                 collectorHost, discoveredHosts, result, scanErr, scanPanic, scanHist>>
  /\ UNCHANGED notScan

\* bytes.Compare(a.IP, b.IP) < 0 on addresses of equal length
IPLess(a, b) == a.IP < b.IP

\* sort.Slice(result, ...) on the values of the map
RECURSIVE SortHosts(_)
SortHosts(hosts) ==
  IF hosts = {} THEN <<>>
  ELSE LET least == CHOOSE h \in hosts : \A o \in hosts \ {h} : IPLess(h, o)
       IN <<least>> \o SortHosts(hosts \ {least})

\* mu.Lock(), the map copied to a slice and sorted, return result, nil; the
\* deferred handle.Close() runs
ScanReturn ==
  /\ scanPC = "collect" /\ ScanLive
  /\ result' = SortHosts(discoveredHosts)
  /\ scanErr' = ""
  /\ scanHandle' = "closed"
  /\ scanPC' = "returned"
  /\ UNCHANGED <<ctxDone, config, localIP, hostBits, currentIP, first, scanned, probes,
                 doneChan, hostsChan, readerPC, readerHost, collectorPC,
                 collectorHost, discoveredHosts, scanPanic, scanHist>>
  /\ UNCHANGED notScan

readerUnchanged == <<scanPC, ctxDone, config, localIP, hostBits, currentIP, first, scanned,
                     probes, scanHandle, doneChan, hostsChan, result, scanErr>>

\* the reader's select takes <-ctx.Done(), <-doneChan, or the packet channel
\* closed with the handle: return
ReaderReturn ==
  /\ readerPC = "select" /\ ScanLive
  /\ ctxDone \/ doneChan = "closed" \/ scanHandle = "closed"
  /\ readerPC' = "done"
  /\ UNCHANGED <<readerUnchanged, scanHist, readerHost, collectorPC, collectorHost,
                 discoveredHosts, scanPanic>>
  /\ UNCHANGED notScan

\* the reader keeps an ARP reply from inside the subnet that is not its own
Accepted(p) == p.op = ARPReply /\ Contains(p.spa) /\ p.spa # localIP

\* the reader's select takes a packet: the filters, then the Host to send
ReaderPacket ==
  /\ readerPC = "select" /\ ScanLive
  /\ scanHandle = "open"
  /\ \E p \in ScanPackets :
       IF Accepted(p)
       THEN /\ readerPC' = "send"
            /\ readerHost' = [IP |-> p.spa, MAC |-> p.sha]
            /\ scanHist' = IF \E h \in scanHist.firstReply : h.IP = p.spa THEN scanHist
                           ELSE [scanHist EXCEPT !.firstReply =
                                                   @ \cup {[IP |-> p.spa, MAC |-> p.sha]}]
       ELSE UNCHANGED <<readerPC, readerHost, scanHist>>
  /\ UNCHANGED <<readerUnchanged, collectorPC, collectorHost, discoveredHosts, scanPanic>>
  /\ UNCHANGED notScan

\* hostsChan <- host: handed to the collector when it is receiving; a panic
\* when the channel has been closed
ReaderSend ==
  /\ readerPC = "send" /\ ScanLive
  /\ IF hostsChan = "closed"
     THEN /\ scanPanic' = "send on closed channel"
          /\ UNCHANGED <<readerPC, readerHost, collectorPC, collectorHost>>
     ELSE /\ collectorPC = "recv"
          /\ collectorPC' = "store"
          /\ collectorHost' = readerHost
          /\ readerPC' = "select"
          /\ readerHost' = NoHost
          /\ UNCHANGED scanPanic
  /\ UNCHANGED <<readerUnchanged, scanHist, discoveredHosts>>
  /\ UNCHANGED notScan

RecordedLast(hosts, host) == {h \in hosts : h.IP # host.IP} \cup {host}

\* if _, exists := discoveredHosts[host.IP.String()]; !exists { ... = host }
Recorded(hosts, host) ==
  IF \E h \in hosts : h.IP = host.IP THEN hosts ELSE hosts \cup {host}

\* the collector's loop body: under mu, keep the host unless its IP is known
CollectorStore ==
  /\ collectorPC = "store" /\ ScanLive
  /\ discoveredHosts' = Recorded(discoveredHosts, collectorHost)
  /\ collectorHost' = NoHost
  /\ collectorPC' = "recv"
  /\ UNCHANGED <<readerUnchanged, scanHist, readerPC, readerHost, scanPanic>>
  /\ UNCHANGED notScan

\* range hostsChan ends when the channel is closed
CollectorReturn ==
  /\ collectorPC = "recv" /\ ScanLive
  /\ hostsChan = "closed"
  /\ collectorPC' = "done"
  /\ UNCHANGED <<readerUnchanged, scanHist, readerPC, readerHost, collectorHost,
                 discoveredHosts, scanPanic>>
  /\ UNCHANGED notScan

\* ------------------------------------------------------------ analysis: time
\* n seconds, in ticks of the clock
Seconds(n) == n * TicksPerSecond

\* the zero time.Time, which a field holds until it is assigned
ZeroTime == -1

\* the variant of SubExceeds in which a window ends after exactly d as well
SubReaches(now, t, d) == t = ZeroTime \/ now - t >= d

\* now.Sub(t) > d: Sub saturates at the largest Duration when t is the zero Time
SubExceeds(now, t, d) == t = ZeroTime \/ now - t > d

RECURSIVE GCD(_, _)
GCD(a, b) == IF b = 0 THEN a ELSE GCD(b, a % b)

\* the float64 n / d of two non-negative integers as a fraction in lowest terms;
\* 1/0 is +Inf and 0/0 is NaN
Quotient(n, d) ==
  IF d = 0 THEN [num |-> IF n = 0 THEN 0 ELSE 1, den |-> 0]
  ELSE [num |-> n \div GCD(n, d), den |-> d \div GCD(n, d)]

Zero == [num |-> 0, den |-> 1]

\* a map with v added to the value at key k, a missing key counting as zero
MapAdd(m, k, v) ==
  [x \in DOMAIN m \cup {k} |-> IF x = k THEN (IF k \in DOMAIN m THEN m[k] ELSE 0) + v
                                         ELSE m[x]]

MapSet(m, k, v) == [x \in DOMAIN m \cup {k} |-> IF x = k THEN v ELSE m[x]]

MapDelete(m, keys) == [x \in DOMAIN m \ keys |-> m[x]]

EmptyMap == [x \in {} |-> 0]

\* ------------------------------------------------------- models.PacketData
\* the fields of a PacketData the analysis package reads
Packet(src, len, host, port, proto, eth) ==
  [SrcIP |-> src, Length |-> len, Hostname |-> host, DstPort |-> port,
   Protocol |-> proto, EthDst |-> eth]

\* a host name is the sequence of its parts; the empty string has none
NoHostname == <<>>

\* the host name of the i-th record of a capture
Host(i) == <<"host", i>>

NoPkt == Packet("", 0, NoHostname, 0, "", "")

\* ------------------------------------------------- analysis.AnomalyDetector
DefaultConfig ==
  [BroadcastThreshold |-> 50, DoSThreshold |-> 500, UnsecureCooldown |-> Seconds(10),
   CleanupInterval |-> Seconds(60), DataRetention |-> Seconds(300)]

\* maxAlerts: 20
maxAlerts == 20

NewAnomalyDetector(cfg, now) ==
  [config |-> cfg, broadcastCount |-> 0, broadcastWindow |-> ZeroTime,
   unsecureAlerts |-> EmptyMap, ipPacketCount |-> EmptyMap, ipWindow |-> EmptyMap,
   alerts |-> <<>>, lastCleanup |-> now]

Alert(type, source, count, now) ==
  [Type |-> type, Source |-> source, Detail |-> count, Timestamp |-> now]

\* The detector's rules take and return d = [ad, raised]: the detector's fields
\* and the alerts passed to addAlert so far.
addAlert(d, alert) ==
  LET all == Append(d.ad.alerts, alert)
  IN [ad |-> [d.ad EXCEPT !.alerts =
                IF Len(all) > maxAlerts THEN SubSeq(all, Len(all) - maxAlerts + 1, Len(all))
                                        ELSE all],
      raised |-> Append(d.raised, alert)]

\* the variant of Stale in which cleanup deletes every entry
StaleAll(m, now, retention) == DOMAIN m

\* the entries cleanup deletes from a map of instants
Stale(m, now, retention) == {k \in DOMAIN m : SubExceeds(now, m[k], retention)}

\* the variant of cleanup that leaves the per-IP packet counts
cleanupWindowsOnly(a, now) ==
  [a EXCEPT !.unsecureAlerts =
              MapDelete(a.unsecureAlerts,
                        Stale(a.unsecureAlerts, now, a.config.DataRetention)),
            !.ipWindow =
              MapDelete(a.ipWindow, Stale(a.ipWindow, now, a.config.DataRetention))]

cleanup(a, now) ==
  LET oldWindows == Stale(a.ipWindow, now, a.config.DataRetention)
  IN [a EXCEPT !.unsecureAlerts =
                 MapDelete(a.unsecureAlerts,
                           Stale(a.unsecureAlerts, now, a.config.DataRetention)),
               !.ipWindow = MapDelete(a.ipWindow, oldWindows),
               !.ipPacketCount = MapDelete(a.ipPacketCount, oldWindows)]

lazyCleanup(d, now) ==
  IF SubExceeds(now, d.ad.lastCleanup, d.ad.config.CleanupInterval)
  THEN [d EXCEPT !.ad = [cleanup(d.ad, now) EXCEPT !.lastCleanup = now]]
  ELSE d

\* the variant of AfterAlert in which an alert leaves the counter as it is
AfterAlertKeeps(count) == count

\* reset to avoid spam: the counter after an alert
AfterAlert(count) == 0

\* the variant of WindowExpired in which the window ends after exactly a second
WindowExpiredAtASecond(now, start) == SubReaches(now, start, Seconds(1))

\* the variant of WindowExpired in which the window never expires
WindowNeverExpires(now, start) == FALSE

\* the broadcast window has expired: now.Sub(ad.broadcastWindow) > time.Second
WindowExpired(now, start) == SubExceeds(now, start, Seconds(1))

detectBroadcastStorm(d, pkt, now) ==
  IF pkt.EthDst # BroadcastMAC THEN d
  ELSE
    LET expired == WindowExpired(now, d.ad.broadcastWindow)
        count == (IF expired THEN 0 ELSE d.ad.broadcastCount) + 1
        window == IF expired THEN now ELSE d.ad.broadcastWindow
    IN IF count > d.ad.config.BroadcastThreshold
       THEN [addAlert(d, Alert("BROADCAST_STORM", "Network", count, now))
               EXCEPT !.ad.broadcastCount = AfterAlert(count), !.ad.broadcastWindow = now]
       ELSE [d EXCEPT !.ad.broadcastCount = count, !.ad.broadcastWindow = window]

unsecurePorts == {80, 21, 23}

\* key := fmt.Sprintf("%s:%d", pkt.SrcIP, pkt.DstPort): the port has no colon, so
\* two keys are equal exactly when both the address and the port are
UnsecureKey(pkt) == <<pkt.SrcIP, pkt.DstPort>>

detectUnsecureProtocol(d, pkt, now) ==
  IF pkt.DstPort \notin unsecurePorts THEN d
  ELSE
    LET key == UnsecureKey(pkt)
        exists == key \in DOMAIN d.ad.unsecureAlerts
    IN IF ~exists \/ SubExceeds(now, d.ad.unsecureAlerts[key], d.ad.config.UnsecureCooldown)
       THEN [addAlert(d, Alert("UNSECURE_PROTOCOL", pkt.SrcIP, pkt.DstPort, now))
               EXCEPT !.ad.unsecureAlerts = MapSet(d.ad.unsecureAlerts, key, now)]
       ELSE d

\* the variant of HasSource in which the empty source address is one like any
AnySource(pkt) == TRUE

\* the record has a source address: pkt.SrcIP != ""
HasSource(pkt) == pkt.SrcIP # ""

\* the variant of DoSKey in which every source shares one counter and window
DoSKeyShared(pkt) == "*"

\* the key of ad.ipWindow and ad.ipPacketCount for a record
DoSKey(pkt) == pkt.SrcIP

detectDoS(d, pkt, now) ==
  IF ~HasSource(pkt) THEN d
  ELSE
    LET ip == DoSKey(pkt)
        exists == ip \in DOMAIN d.ad.ipWindow
        start == IF exists THEN d.ad.ipWindow[ip] ELSE now
        expired == SubExceeds(now, start, Seconds(1))
        count == (IF exists /\ ~expired THEN d.ad.ipPacketCount[ip] ELSE 0) + 1
        window == IF expired THEN now ELSE start
    IN IF count > d.ad.config.DoSThreshold
       THEN [addAlert(d, Alert("POSSIBLE_DOS", pkt.SrcIP, count, now))
               EXCEPT !.ad.ipPacketCount = MapSet(d.ad.ipPacketCount, ip, AfterAlert(count)),
                      !.ad.ipWindow = MapSet(d.ad.ipWindow, ip, now)]
       ELSE [d EXCEPT !.ad.ipPacketCount = MapSet(d.ad.ipPacketCount, ip, count),
                      !.ad.ipWindow = MapSet(d.ad.ipWindow, ip, window)]

\* AnomalyDetector.ProcessPacket, under ad.mu
DetectorProcess(a, pkt, now) ==
  detectDoS(detectUnsecureProtocol(detectBroadcastStorm(
              lazyCleanup([ad |-> a, raised |-> <<>>], now), pkt, now), pkt, now), pkt, now)

\* what a call gives its caller: the value it returns, or the message of the
\* run-time panic that ends it
Returned(val) == [val |-> val, panic |-> ""]
Panicked(msg) == [val |-> <<>>, panic |-> msg]

\* the variant of LastAlerts that returns the oldest alerts
FirstAlerts(alerts, start) == SubSeq(alerts, 1, Len(alerts) - start)

\* copy(result, ad.alerts[start:]) into result of length len(ad.alerts)-start
LastAlerts(alerts, start) == SubSeq(alerts, start + 1, Len(alerts))

\* make([]Alert, n) panics when n is negative
GetRecentAlerts(a, limit) ==
  IF Len(a.alerts) = 0 THEN Returned(<<>>)
  ELSE LET start == IF Len(a.alerts) > limit THEN Len(a.alerts) - limit ELSE 0
       IN IF Len(a.alerts) - start < 0
          THEN Panicked("makeslice: len out of range")
          ELSE Returned(LastAlerts(a.alerts, start))

\* --------------------------------------------------- analysis.TrafficStats
\* maxDomainLog: 50
maxDomainLog == 50

NewTrafficStats(now) ==
  [totalBytes |-> 0, windowBytes |-> 0, windowPackets |-> 0, lastTick |-> now,
   ipBytes |-> EmptyMap, protocolCounts |-> EmptyMap, domainLog |-> <<>>]

\* the variant of AddTotal that counts only the records with a source address
AddTotalOfSources(total, pkt) == IF pkt.SrcIP = "" THEN total ELSE total + pkt.Length

\* s.totalBytes += int64(pkt.Length)
AddTotal(total, pkt) == total + pkt.Length

\* the variant of DomainSource that tests the protocol first
DomainSourceByProtocol(pkt) ==
  IF pkt.Protocol = "UDP" \/ pkt.DstPort = 53 THEN "DNS"
  ELSE IF pkt.DstPort = 443 \/ pkt.DstPort = 853 THEN "SNI"
  ELSE "HTTP"

\* the source of a DomainEntry
DomainSource(pkt) ==
  IF pkt.DstPort = 443 \/ pkt.DstPort = 853 THEN "SNI"
  ELSE IF pkt.DstPort = 53 \/ pkt.Protocol = "UDP" THEN "DNS"
  ELSE "HTTP"

DomainEntry(pkt, now) ==
  [Hostname |-> pkt.Hostname, Timestamp |-> now, Source |-> DomainSource(pkt)]

\* the variant of KeepLast that keeps the first maxDomainLog entries
KeepFirst(log) == SubSeq(log, 1, maxDomainLog)

\* the entries kept of a log that has grown past maxDomainLog
KeepLast(log) == SubSeq(log, Len(log) - maxDomainLog + 1, Len(log))

appendDomain(log, pkt, now) ==
  IF pkt.Hostname = NoHostname THEN log
  ELSE LET all == Append(log, DomainEntry(pkt, now))
       IN IF Len(all) > maxDomainLog THEN KeepLast(all) ELSE all

\* ProcessPacket, lines 61-63: the cumulative and the window counters
CountBytes(s, pkt) ==
  [s EXCEPT !.totalBytes = AddTotal(s.totalBytes, pkt),
            !.windowBytes = s.windowBytes + pkt.Length,
            !.windowPackets = s.windowPackets + 1]

\* lines 66-68: the bytes of the source address
CountSource(s, pkt) ==
  [s EXCEPT !.ipBytes = IF HasSource(pkt) THEN MapAdd(s.ipBytes, pkt.SrcIP, pkt.Length)
                                          ELSE s.ipBytes]

\* lines 72-76: the packets of the protocol
CountProtocol(s, pkt) ==
  [s EXCEPT !.protocolCounts =
              MapAdd(s.protocolCounts, IF pkt.Protocol = "" THEN "Unknown" ELSE pkt.Protocol, 1)]

\* lines 79-100: the domain log
CountDomain(s, pkt, now) == [s EXCEPT !.domainLog = appendDomain(s.domainLog, pkt, now)]

\* TrafficStats.ProcessPacket from s.mu.Lock() to the s.mu.Unlock() before the
\* detector is called
Count(s, pkt, now) ==
  CountDomain(CountProtocol(CountSource(CountBytes(s, pkt), pkt), pkt), pkt, now)

\* ---- the capture: the records delivered in a run, by its kind
IPA == "10.0.0.1"
IPB == "10.0.0.2"

\* records that differ in source address and length
Traffic(src, len) == Packet(src, len, NoHostname, 443, "TCP", "")

\* the records of two sources that may come after n records; the first record
\* may make the totals of the two equal
TalkerRecords(n) ==
  {Traffic(IPA, 500), Traffic(IPA, 200), Traffic(IPB, 300)}
    \cup (IF n = 0 THEN {Traffic(IPB, 500)} ELSE {})

\* records with and without a source address
ConcurrentRecords == {Traffic("", 300), Traffic(IPA, 200), Traffic(IPB, 500)}

\* records with a host name that raise one alert or two
MemoryRecords ==
  {Packet(IPA, 200, Host(1), 80, "TCP", ""), Packet(IPB, 500, Host(2), 443, "UDP", "")}

\* records with and without a source address, a host name and a protocol, to a
\* plaintext port
FieldRecords ==
  {Packet(src, 100, host, 80, proto, "") :
     src \in {"", IPA}, host \in {NoHostname, Host(1)}, proto \in {"", "TCP"}}

\* records without a protocol, with the protocol named Unknown, and of two others
ProtocolRecords ==
  {Packet(IPA, 100, NoHostname, 443, proto, "") : proto \in {"", "Unknown", "TCP", "UDP"}}

\* ---- the capture layer: tshark's packets, as EkLayers holds them
\* the host names tshark reports, one for each field it can report one in
SniName == <<"sni">>
DnsName == <<"dns">>
HttpName == <<"http">>

\* the packets tshark reports: over TCP or UDP, to one of a few ports, with
\* any of the three host name fields set
EkPackets ==
  [transport : {"tcp", "udp"}, dstPort : {53, 80, 443, 8443},
   TlsSni : {NoHostname, SniName}, DnsQuery : {NoHostname, DnsName},
   HttpHost : {NoHostname, HttpName}]

\* convertToModel: Protocol and DstPort from the transport's ports, Hostname
\* from the first field set of TLS SNI, DNS query, HTTP Host
convertToModel(ek) ==
  Packet(IPA, 100,
         IF ek.TlsSni # NoHostname THEN ek.TlsSni
         ELSE IF ek.DnsQuery # NoHostname THEN ek.DnsQuery
         ELSE ek.HttpHost,
         IF ek.transport = "" THEN 0 ELSE ek.dstPort,
         IF ek.transport = "tcp" THEN "TCP"
         ELSE IF ek.transport = "udp" THEN "UDP" ELSE "OTHER",
         "")

\* the records the capture delivers for tshark's packets
CaptureRecords == {convertToModel(ek) : ek \in EkPackets}

\* records of two sources to a plaintext port
LimitRecords == {Packet(src, 100, NoHostname, 80, "TCP", "") : src \in {IPA, IPB}}

\* the record that comes after n records: one without protocol, one without
\* source address and host name, one with all three, in turn
AtomicRecords(n) ==
  LET kinds == <<Packet(IPB, 500, Host(2), 80, "", ""),
                 Packet("", 300, NoHostname, 53, "UDP", ""),
                 Packet(IPA, 200, Host(1), 443, "TCP", "")>>
  IN {kinds[(n % 3) + 1]}

\* records that differ in host name, destination port and protocol
DomainRecords ==
  {Packet(IPA, 200, <<"example.org">>, port, proto, "") :
     port \in {443, 853, 53, 8080}, proto \in {"TCP", "UDP"}}
    \cup {Packet(IPA, 200, NoHostname, 53, "UDP", "")}

\* a record with the host name of its place in the capture
Named(i) == Packet(IPA, 200, Host(i), 443, "TCP", "")

\* Records with a host name each, after at most MaxUnnamed records of which any
\* may have none
NumberedRecords(n) ==
  {Named(n + 1)} \cup (IF n < MaxUnnamed THEN {Traffic(IPA, 200)} ELSE {})

\* the records the capture may deliver next
Incoming ==
  CASE traffic = "concurrent" ->
         IF Len(statsHist.processed) < MaxConcurrent THEN ConcurrentRecords ELSE {}
    [] traffic = "memory" ->
         IF Len(statsHist.processed) < MaxMemoryRecords THEN MemoryRecords ELSE {}
    [] traffic = "fields" ->
         IF Len(statsHist.processed) < MaxFieldRecords THEN FieldRecords ELSE {}
    [] traffic = "limits" ->
         IF Len(statsHist.processed) < MaxLimitRecords THEN LimitRecords ELSE {}
    [] traffic = "capture" ->
         IF Len(statsHist.processed) < MaxCaptureRecords THEN CaptureRecords ELSE {}
    [] traffic = "protocols" ->
         IF Len(statsHist.processed) < MaxProtocolRecords THEN ProtocolRecords ELSE {}
    [] traffic = "atomic" ->
         IF Len(statsHist.processed) < MaxConcurrent
           THEN AtomicRecords(Len(statsHist.processed)) ELSE {}
    [] traffic = "talkers" ->
         IF Len(statsHist.processed) < MaxRecords
           THEN TalkerRecords(Len(statsHist.processed)) ELSE {}
    [] traffic = "domains" ->
         IF Len(statsHist.processed) < MaxDomainRecords THEN DomainRecords ELSE {}
    [] traffic = "numbered" ->
         IF Len(statsHist.processed) < MaxLogRecords
           THEN NumberedRecords(Len(statsHist.processed)) ELSE {}
    [] OTHER -> {}

\* the goroutines that call ProcessPacket
Callers == {"g1", "g2"}

\* the goroutines that call it in this run: both, or the capture's own only
Calling == IF traffic \in {"concurrent", "atomic"} THEN Callers ELSE {"g1"}

\* for each alert a call raised, the number n of the record that raised it
RaisedBy(d, n) == [i \in 1 .. Len(d.raised) |-> n]

\* a call of AnomalyDetector.ProcessPacket(pkt) at the current instant
Detect(pkt) ==
  LET d == DetectorProcess(ad, pkt, clock)
  IN /\ ad' = d.ad
     /\ adHist' = [raised |-> adHist.raised \o d.raised,
                   seen |-> Append(adHist.seen, [pkt |-> pkt, at |-> clock]),
                   raisedAt |-> adHist.raisedAt \o RaisedBy(d, Len(adHist.seen) + 1)]

\* a record sent to every station of the link
BroadcastRecord == Packet("", 60, NoHostname, 0, "ARP", BroadcastMAC)

\* records to plaintext and other ports
UnsecureRecords ==
  {Packet(src, 60, NoHostname, port, "TCP", "") : src \in {IPA, IPB}, port \in {80, 443}}
    \cup {Packet(IPA, 60, NoHostname, 23, "TCP", "")}

\* a record from one source to a port that is not a plaintext one
FloodRecord(src) == Packet(src, 60, NoHostname, 443, "TCP", "")

\* the records adHist.seen holds from one source
SeenFrom(src) == SelectSeq(adHist.seen, LAMBDA r : r.pkt.SrcIP = src)

\* a broadcast record with a source address
BroadcastFrom(src) == Packet(src, 60, NoHostname, 443, "UDP", BroadcastMAC)

\* records that count for the broadcast counter, for a per-IP counter, for both
ThresholdRecords == {BroadcastRecord, FloodRecord(IPA), BroadcastFrom(IPB)}

\* the numbers of records after which a capture pauses, and after which a flood
\* from one source is joined by a record from another
Pauses ==
  CASE traffic = "dos" -> {0, 1, 250, 500}
    [] traffic = "thresholds" -> {0, 2, 4}
    [] traffic = "alerts" -> {0, 1, 19, 20}
    [] OTHER -> {0, 1, 17, 34, 50}

\* a flood from IPA with a few records from IPB in between
FloodRecords ==
  (IF Len(SeenFrom(IPA)) < MaxFlood THEN {FloodRecord(IPA)} ELSE {})
    \cup (IF Len(adHist.seen) \in Pauses /\ Len(SeenFrom(IPB)) < MaxOthers
            THEN {FloodRecord(IPB)} ELSE {})

\* a record no rule of the detector looks at: no source address, no broadcast,
\* no plaintext port
QuietRecord == Packet("", 60, NoHostname, 443, "TCP", "")

\* records that leave a throttle entry, a per-IP window, a broadcast count or
\* nothing in the detector
CleanupRecords ==
  {Packet(IPA, 60, NoHostname, 80, "TCP", ""), FloodRecord(IPB), BroadcastRecord,
   QuietRecord}

\* the records the capture may deliver to the detector next
DetectorIncoming ==
  CASE traffic = "storm" ->
         IF Len(adHist.seen) < MaxBroadcasts THEN {BroadcastRecord} ELSE {}
    [] traffic = "unsecure" ->
         IF Len(adHist.seen) < MaxUnsecureRecords THEN UnsecureRecords ELSE {}
    [] traffic = "dos" -> FloodRecords
    [] traffic = "cleanup" ->
         IF Len(adHist.seen) < MaxCleanupRecords THEN CleanupRecords ELSE {}
    [] traffic = "thresholds" ->
         IF Len(adHist.seen) < MaxThresholdRecords THEN ThresholdRecords ELSE {}
    [] traffic = "window" ->
         IF Len(adHist.seen) < MaxWindowRecords THEN {BroadcastRecord, QuietRecord} ELSE {}
    [] traffic = "alerts" ->
         IF Len(adHist.seen) < MaxAlertRecords
           THEN {FloodRecord(IPA)}
                  \cup (IF Len(adHist.seen) \in Pauses THEN {FloodRecord(IPB)} ELSE {})
           ELSE {}
    [] OTHER -> {}

\* the last instant of a run
ClockLimit ==
  CASE traffic = "storm" -> Seconds(StormSeconds) - 1
    [] traffic = "unsecure" -> Seconds(UnsecureSeconds)
    [] traffic = "dos" -> Seconds(1) + 1
    [] traffic = "thresholds" -> Seconds(1) + 1
    [] traffic = "alerts" -> MaxClock
    [] traffic = "cleanup" -> Seconds(CleanupSeconds)
    [] traffic = "window" -> Seconds(WindowSeconds)
    [] OTHER -> MaxClock

\* no reader call was the last step
NoOutput == [op |-> "", arg |-> 0, val |-> <<>>, panic |-> ""]

\* AnomalyDetector.ProcessPacket(pkt), called on the detector itself
DetectorProcessPacket ==
  /\ \E pkt \in DetectorIncoming : Detect(pkt)
  /\ statsOut' = NoOutput
  /\ UNCHANGED <<clock, traffic, stats, statsPC, statsPkt, statsHist>>
  /\ UNCHANGED notAnalysis

\* time passes
Tick ==
  /\ clock < ClockLimit
  /\ traffic \in {"storm", "dos", "alerts", "thresholds"} => Len(adHist.seen) \in Pauses
  /\ clock' = clock + 1
  /\ statsOut' = NoOutput
  /\ UNCHANGED <<traffic, stats, statsPC, statsPkt, statsHist, ad, adHist>>
  /\ UNCHANGED notAnalysis

\* the positions of a ProcessPacket call between its s.mu.Lock() and the
\* s.mu.Unlock() before the detector, named by the update that comes next
Counting == <<"bytes", "source", "protocol", "domain", "unlock">>

\* the variant of MutexFree in which s.mu.Lock() never waits
MutexIgnored == TRUE

\* s.mu.Lock() returns: no goroutine is between a Lock and an Unlock of s.mu
MutexFree == \A g \in Callers : \A i \in 1 .. Len(Counting) : statsPC[g] # Counting[i]

\* ProcessPacket(pkt), line 59: s.mu.Lock()
StatsLock(g) ==
  /\ g \in Calling
  /\ statsPC[g] = "idle"
  /\ MutexFree
  /\ \E pkt \in Incoming :
       /\ statsPkt' = [statsPkt EXCEPT ![g] = pkt]
       /\ statsHist' = [statsHist EXCEPT !.processed = Append(@, pkt)]
  /\ statsPC' = [statsPC EXCEPT ![g] = Counting[1]]
  /\ statsOut' = NoOutput
  /\ UNCHANGED <<clock, traffic, stats, ad, adHist>>
  /\ UNCHANGED notAnalysis

\* ProcessPacket, lines 61-100: the next of the four updates, s.mu held
StatsUpdate(g) ==
  /\ \E i \in 1 .. 4 :
       /\ statsPC[g] = Counting[i]
       /\ stats' = CASE i = 1 -> CountBytes(stats, statsPkt[g])
                     [] i = 2 -> CountSource(stats, statsPkt[g])
                     [] i = 3 -> CountProtocol(stats, statsPkt[g])
                     [] i = 4 -> CountDomain(stats, statsPkt[g], clock)
       /\ statsPC' = [statsPC EXCEPT ![g] = Counting[i + 1]]
  /\ statsOut' = NoOutput
  /\ UNCHANGED <<clock, traffic, statsPkt, statsHist, ad, adHist>>
  /\ UNCHANGED notAnalysis

\* ProcessPacket, line 103: s.mu.Unlock()
StatsUnlock(g) ==
  /\ statsPC[g] = "unlock"
  /\ statsPC' = [statsPC EXCEPT ![g] = "detect"]
  /\ statsOut' = NoOutput
  /\ UNCHANGED <<clock, traffic, stats, statsPkt, statsHist, ad, adHist>>
  /\ UNCHANGED notAnalysis

\* ProcessPacket(pkt), lines 59-103: every update of the statistics, under s.mu
StatsProcessPacket(g) ==
  /\ g \in Calling
  /\ statsPC[g] = "idle"
  /\ MutexFree
  /\ \E pkt \in Incoming :
       /\ stats' = Count(stats, pkt, clock)
       /\ statsPkt' = [statsPkt EXCEPT ![g] = pkt]
       /\ statsHist' =
            [statsHist EXCEPT !.processed = Append(@, pkt)]
  /\ statsPC' = [statsPC EXCEPT ![g] = "detect"]
  /\ statsOut' = NoOutput
  /\ UNCHANGED <<clock, traffic, ad, adHist>>
  /\ UNCHANGED notAnalysis

\* ProcessPacket, line 104: s.anomalyDetector.ProcessPacket(pkt), outside s.mu
StatsDetect(g) ==
  /\ statsPC[g] = "detect"
  /\ Detect(statsPkt[g])
  /\ statsPC' = [statsPC EXCEPT ![g] = "relock"]
  /\ statsPkt' = [statsPkt EXCEPT ![g] = NoPkt]
  /\ statsOut' = NoOutput
  /\ UNCHANGED <<clock, traffic, stats, statsHist>>
  /\ UNCHANGED notAnalysis

\* ProcessPacket, lines 105-106: s.mu.Lock() and the deferred s.mu.Unlock()
StatsReturn(g) ==
  /\ statsPC[g] = "relock"
  /\ MutexFree
  /\ statsPC' = [statsPC EXCEPT ![g] = "idle"]
  /\ statsOut' = NoOutput
  /\ UNCHANGED <<clock, traffic, stats, statsPkt, statsHist, ad, adHist>>
  /\ UNCHANGED notAnalysis

\* what the reader call that was the last step returned
Output(op, arg, val) == [op |-> op, arg |-> arg, val |-> val, panic |-> ""]

\* a reader call that returned or panicked
Outcome(op, arg, r) == [op |-> op, arg |-> arg, val |-> r.val, panic |-> r.panic]

\* the variant of ZeroElapsedReturns in which GetRates always resets the window
ZeroElapsedGoesOn(duration) == FALSE

\* GetRates with no time elapsed returns before it resets the window
ZeroElapsedReturns(duration) == duration = 0

\* the rates GetRates computes: bits and packets per second
Rates(s, duration) ==
  <<Quotient(s.windowBytes * 8 * TicksPerSecond, duration),
    Quotient(s.windowPackets * TicksPerSecond, duration)>>

\* the bytes a returned bit rate stands for: rate * seconds / 8
ReportedBytes(bps, duration) ==
  IF bps.den = 0 THEN 0 ELSE (bps.num * duration) \div (bps.den * 8 * TicksPerSecond)

\* the variant of ResetWindow that leaves the count of packets
ResetBytesOnly(s, now) == [s EXCEPT !.windowBytes = 0, !.lastTick = now]

\* GetRates: reset window
ResetWindow(s, now) ==
  [s EXCEPT !.windowBytes = 0, !.windowPackets = 0, !.lastTick = now]

GetRates ==
  /\ MutexFree
  /\ LET duration == clock - stats.lastTick
     IN IF ZeroElapsedReturns(duration)
        THEN /\ statsOut' = Output("GetRates", duration, <<Zero, Zero>>)
             /\ UNCHANGED <<stats, statsHist>>
        ELSE /\ statsOut' = Output("GetRates", duration, Rates(stats, duration))
             /\ stats' = ResetWindow(stats, clock)
             /\ statsHist' = [statsHist EXCEPT
                                !.reported = @ + ReportedBytes(Rates(stats, duration)[1], duration),
                                               !.resetAt = Len(statsHist.processed)]
  /\ UNCHANGED <<clock, traffic, statsPC, statsPkt, ad, adHist>>
  /\ UNCHANGED notAnalysis

\* the sequences with each element of set S once
Orders(S) ==
  {f \in [1 .. Cardinality(S) -> S] : \A i, j \in 1 .. Cardinality(S) : i # j => f[i] # f[j]}

\* the variant of SortedByBytes that leaves the entries in the map's order
Unsorted(m) == Orders({[IP |-> ip, Bytes |-> m[ip]] : ip \in DOMAIN m})

\* sort.Slice with less(i, j) = stats[i].Bytes > stats[j].Bytes, on the map's
\* entries in the order the range statement visits them: any order of the entries
\* in which no entry has more bytes than one before it
SortedByBytes(m) ==
  {f \in Orders({[IP |-> ip, Bytes |-> m[ip]] : ip \in DOMAIN m}) :
     \A i, j \in 1 .. Len(f) : i < j => ~(f[j].Bytes > f[i].Bytes)}

\* the limits GetTopTalkers is called with
TalkerLimits == IF traffic = "limits" THEN -1 .. 1 ELSE 0 .. 2

\* lines 155-158: stats[:limit] panics when limit is negative
TopTalkers(sorted, limit) ==
  IF Len(sorted) > limit
    THEN IF limit < 0 THEN Panicked("slice bounds out of range")
                      ELSE Returned(SubSeq(sorted, 1, limit))
    ELSE Returned(sorted)

\* a panic of a reader passes its deferred Unlock and reaches the caller, who is
\* taken to recover from it
GetTopTalkers ==
  /\ MutexFree
  /\ \E limit \in TalkerLimits, sorted \in SortedByBytes(stats.ipBytes) :
       statsOut' = Outcome("GetTopTalkers", limit, TopTalkers(sorted, limit))
  /\ UNCHANGED <<clock, traffic, stats, statsPC, statsPkt, statsHist, ad, adHist>>
  /\ UNCHANGED notAnalysis

\* the variant of SortedByCount that leaves the entries in the map's order
AnyOrderByCount(m) == Orders({[Protocol |-> p, Count |-> m[p]] : p \in DOMAIN m})

\* sort.Slice with less(i, j) = stats[i].Count > stats[j].Count
SortedByCount(m) ==
  {f \in Orders({[Protocol |-> p, Count |-> m[p]] : p \in DOMAIN m}) :
     \A i, j \in 1 .. Len(f) : i < j => ~(f[j].Count > f[i].Count)}

GetProtocolStats ==
  /\ MutexFree
  /\ \E sorted \in SortedByCount(stats.protocolCounts) :
       statsOut' = Output("GetProtocolStats", 0, sorted)
  /\ UNCHANGED <<clock, traffic, stats, statsPC, statsPkt, statsHist, ad, adHist>>
  /\ UNCHANGED notAnalysis

GetDomainLog ==
  /\ MutexFree
  /\ statsOut' = Output("GetDomainLog", 0, stats.domainLog)
  /\ UNCHANGED <<clock, traffic, stats, statsPC, statsPkt, statsHist, ad, adHist>>
  /\ UNCHANGED notAnalysis

\* GetAlerts: s.anomalyDetector.GetRecentAlerts(5)
GetAlerts ==
  /\ statsOut' = Outcome("GetAlerts", 5, GetRecentAlerts(ad, 5))
  /\ UNCHANGED <<clock, traffic, stats, statsPC, statsPkt, statsHist, ad, adHist>>
  /\ UNCHANGED notAnalysis

\* the limits GetRecentAlerts is called with
AlertLimits == {-1, 0, 1, 5, 20, 21}

\* AnomalyDetector.GetRecentAlerts(limit), called on the detector itself
DetectorGetRecentAlerts ==
  /\ \E limit \in AlertLimits :
       statsOut' = Outcome("GetRecentAlerts", limit, GetRecentAlerts(ad, limit))
  /\ UNCHANGED <<clock, traffic, stats, statsPC, statsPkt, statsHist, ad, adHist>>
  /\ UNCHANGED notAnalysis

\* ------------------------------------------------- the slices in memory
\* A slice is a header [arr, off, len, cap]: elements off+1 .. off+len of the
\* backing array heap[arr], which has room for cap elements from off+1 on.
\* arr = 0 is a slice without elements and without room.
NilSlice == [arr |-> 0, off |-> 0, len |-> 0, cap |-> 0]

\* the zero value of an element, and a value a caller stores in a list it holds
ZeroCell == [zero |-> TRUE]
Scribble == [scribble |-> TRUE]

Zeroes(n) == [i \in 1 .. n |-> ZeroCell]

\* make([]DomainEntry, 0), make([]Alert, 0): no backing array yet
NewMemory ==
  [heap |-> [id \in 1 .. MaxArrays |-> <<>>],
   domainLog |-> NilSlice, alerts |-> NilSlice, ret |-> NilSlice]

\* the elements of a slice
Deref(m, h) == IF h.arr = 0 THEN <<>> ELSE SubSeq(m.heap[h.arr], h.off + 1, h.off + h.len)

\* the arrays a slice of the objects or of the caller points into
Referenced(m) == {m.domainLog.arr, m.alerts.arr, m.ret.arr} \ {0}

\* the garbage collector: an array no slice points into is gone
Collect(m) ==
  [m EXCEPT !.heap = [id \in 1 .. MaxArrays |-> IF id \in Referenced(m) THEN m.heap[id] ELSE <<>>]]

\* the array an allocation returns
FreeArray(m) == CHOOSE id \in 1 .. MaxArrays \ Referenced(m) : \A o \in 1 .. MaxArrays \ Referenced(m) : id <= o

\* m[field] = append(m[field], x): in place when there is room, else into a new
\* array of twice the capacity, to which the elements are copied
SliceAppend(m, field, x) ==
  LET h == m[field]
  IN IF h.len < h.cap
     THEN [m EXCEPT !.heap[h.arr][h.off + h.len + 1] = x, ![field].len = h.len + 1]
     ELSE LET id == FreeArray(m)
              cap == IF h.cap = 0 THEN 1 ELSE 2 * h.cap
          IN Collect([m EXCEPT !.heap[id] = Deref(m, h) \o <<x>> \o Zeroes(cap - h.len - 1),
                               ![field] = [arr |-> id, off |-> 0, len |-> h.len + 1,
                                           cap |-> cap]])

\* m[field] = m[field][len(m[field])-max:] when it is longer than max
KeepLastOf(m, field, max) ==
  LET h == m[field]
  IN IF h.len > max
     THEN [m EXCEPT ![field] = [arr |-> h.arr, off |-> h.off + (h.len - max), len |-> max,
                                cap |-> h.cap - (h.len - max)]]
     ELSE m

RECURSIVE AddAlerts(_, _)
\* addAlert for each alert a ProcessPacket call of the detector raises
AddAlerts(m, raised) ==
  IF raised = <<>> THEN m
  ELSE AddAlerts(KeepLastOf(SliceAppend(m, "alerts", raised[1]), "alerts", maxAlerts),
                 Tail(raised))

\* the variant of CopyOut that returns the slice itself
AliasOut(m, h) == Collect([m EXCEPT !.ret = h])

\* result := make([]T, len(h)); copy(result, h); return result
CopyOut(m, h) ==
  IF h.len = 0 THEN Collect([m EXCEPT !.ret = NilSlice])
  ELSE LET dropped == [m EXCEPT !.ret = NilSlice]
           id == FreeArray(dropped)
       IN Collect([dropped EXCEPT !.heap[id] = Deref(m, h),
                                  !.ret = [arr |-> id, off |-> 0, len |-> h.len,
                                           cap |-> h.len]])

\* stats := make([]T, 0, len(entries)), an append for each entry, and
\* return stats[:n]
FreshOut(m, entries, n) ==
  IF Len(entries) = 0 THEN Collect([m EXCEPT !.ret = NilSlice])
  ELSE LET dropped == [m EXCEPT !.ret = NilSlice]
           id == FreeArray(dropped)
       IN Collect([dropped EXCEPT !.heap[id] = entries,
                                  !.ret = [arr |-> id, off |-> 0, len |-> n,
                                           cap |-> Len(entries)]])

\* TrafficStats.ProcessPacket(pkt) of one goroutine, with the detector's
\* ProcessPacket it calls: the fields, and the two slices in memory
MemProcessPacket ==
  /\ \E pkt \in Incoming :
       LET d == DetectorProcess(ad, pkt, clock)
           logged == IF pkt.Hostname = NoHostname THEN mem
                     ELSE KeepLastOf(SliceAppend(mem, "domainLog", DomainEntry(pkt, clock)),
                                     "domainLog", maxDomainLog)
       IN /\ stats' = Count(stats, pkt, clock)
          /\ statsHist' = [statsHist EXCEPT !.processed = Append(@, pkt)]
          /\ ad' = d.ad
          /\ adHist' = [raised |-> adHist.raised \o d.raised,
                        seen |-> Append(adHist.seen, [pkt |-> pkt, at |-> clock]),
                        raisedAt |-> adHist.raisedAt \o RaisedBy(d, Len(adHist.seen) + 1)]
          /\ mem' = AddAlerts(logged, d.raised)
  /\ statsOut' = NoOutput
  /\ UNCHANGED <<clock, traffic, statsPC, statsPkt>>
  /\ UNCHANGED notMemory

\* what a reader leaves unchanged
readerUnchangedMem == <<clock, traffic, stats, statsPC, statsPkt, statsHist, ad, adHist>>

\* GetDomainLog, with the list it returns in memory
MemGetDomainLog ==
  /\ mem' = CopyOut(mem, mem.domainLog)
  /\ statsOut' = Output("GetDomainLog", 0, stats.domainLog)
  /\ UNCHANGED readerUnchangedMem
  /\ UNCHANGED notMemory

\* GetRecentAlerts(limit), limit >= 0, with the list it returns in memory
MemGetRecentAlerts ==
  /\ \E limit \in AlertLimits :
       /\ limit >= 0
       /\ LET h == mem.alerts
              start == IF h.len > limit THEN h.len - limit ELSE 0
          IN mem' = CopyOut(mem, [arr |-> h.arr, off |-> h.off + start, len |-> h.len - start,
                                  cap |-> h.cap - start])
       /\ statsOut' = Outcome("GetRecentAlerts", limit, GetRecentAlerts(ad, limit))
  /\ UNCHANGED readerUnchangedMem
  /\ UNCHANGED notMemory

\* GetTopTalkers(limit), limit >= 0, with the list it returns in memory
MemGetTopTalkers ==
  /\ \E limit \in TalkerLimits, sorted \in SortedByBytes(stats.ipBytes) :
       /\ limit >= 0
       /\ mem' = FreshOut(mem, sorted, IF Len(sorted) > limit THEN limit ELSE Len(sorted))
       /\ statsOut' = Output("GetTopTalkers", limit,
                             IF Len(sorted) > limit THEN SubSeq(sorted, 1, limit) ELSE sorted)
  /\ UNCHANGED readerUnchangedMem
  /\ UNCHANGED notMemory

\* GetProtocolStats, with the list it returns in memory
MemGetProtocolStats ==
  /\ \E sorted \in SortedByCount(stats.protocolCounts) :
       /\ mem' = FreshOut(mem, sorted, Len(sorted))
       /\ statsOut' = Output("GetProtocolStats", 0, sorted)
  /\ UNCHANGED readerUnchangedMem
  /\ UNCHANGED notMemory

\* the caller stores a value in an element of the list it was returned
CallerWrites ==
  /\ \E i \in 1 .. mem.ret.len :
       mem' = [mem EXCEPT !.heap[mem.ret.arr][mem.ret.off + i] = Scribble]
  /\ UNCHANGED <<statsOut, readerUnchangedMem>>
  /\ UNCHANGED notMemory

\* ------------------------------------------------------------ specification
\* no Scan call is in progress
NoScan ==
  /\ scanPC = "none" /\ ctxDone = FALSE /\ config = [isNil |-> TRUE, MaxHosts |-> 0]
  /\ localIP = 0 /\ hostBits = 0 /\ currentIP = 0 /\ first = FALSE /\ scanned = 0
  /\ probes = <<>> /\ scanHandle = "closed" /\ doneChan = "open" /\ hostsChan = "open"
  /\ readerPC = "none" /\ readerHost = NoHost
  /\ collectorPC = "none" /\ collectorHost = NoHost /\ discoveredHosts = {}
  /\ result = <<>> /\ scanErr = "" /\ scanPanic = ""
  /\ scanHist = [cfg |-> config, firedAfter |-> -1, sawCancel |-> "", sendErrors |-> 0,
                 firstReply |-> {}]

StatsHistInit == [processed |-> <<>>, reported |-> 0, resetAt |-> 0]

\* the analysis package as NewTrafficStats() leaves it, with traffic of one kind
Analysis(kind) ==
  /\ clock = 0
  /\ traffic = kind
  /\ stats = NewTrafficStats(clock)
  /\ statsPC = [g \in Callers |-> "idle"]
  /\ statsPkt = [g \in Callers |-> NoPkt]
  /\ statsOut = NoOutput
  /\ statsHist = StatsHistInit
  /\ ad = NewAnomalyDetector(DefaultConfig, clock)
  /\ adHist = [raised |-> <<>>, seen |-> <<>>, raisedAt |-> <<>>]
  /\ mem = NewMemory

\* the analysis package is not in use
NoAnalysis == Analysis("none")

\* starts, stops: the Start and Stop calls made; ticks: the ticks handled;
\* failedTicks: the ticks in a row that ended in a transmit error;
\* tickLog[t]: the frames task t attempted in its current or last tick;
\* stopCall: the state of the last Stop call that found the engine running;
\* restoreLog: the frames that Stop call attempted; restoreFailed: one of them failed;
\* wroteClosed: a frame was written to a handle after its Close()
HistInit ==
  [starts |-> 0, stops |-> 0, ticks |-> 0, failedTicks |-> 0,
   tickLog |-> [t \in StartIds |-> <<>>],
   stopCall |-> "none", restoreLog |-> <<>>, restoreFailed |-> FALSE,
   wroteClosed |-> FALSE]

\* the program's main function is not running
NoMain == main = [pc |-> "none", forwarding |-> FALSE, defers |-> <<>>, exit |-> ""]

\* no engine yet, nothing written
EngineInit ==
  /\ newEngine = [targetMAC |-> NoMAC, gatewayMAC |-> NoMAC, err |-> ""]
  /\ requests = <<>>
  /\ engine = NoEngine
  /\ isRunning = FALSE
  /\ stopChan = "open"
  /\ handle = 0
  /\ handles = [i \in StartIds |-> "unopened"]
  /\ tasks = [i \in StartIds |-> "none"]
  /\ round = 0
  /\ crashed = ""
  /\ hist = HistInit

Init ==
  /\ callerPC = "new"
  /\ getmac = GetMACIdle
  /\ EngineInit
  /\ NoMain
  /\ NoScan
  /\ NoAnalysis

Next ==
  \/ NewEngine
  \/ GetMACSetup
  \/ GetMACPoll
  \/ NewEngineTarget
  \/ NewEngineGateway
  \/ Start
  \/ Stop
  \/ StopSleep
  \/ CleanupTarget
  \/ CleanupGateway
  \/ CleanupSleep
  \/ StopClose
  \/ \E t \in StartIds : LoopStop(t)
  \/ \E t \in StartIds : LoopTick(t)
  \/ \E t \in StartIds : SpoofTarget(t)
  \/ \E t \in StartIds : SpoofGateway(t)

Spec == Init /\ [][Next]_vars

\* main with -target and -gateway, after flag.Parse()
MainInit ==
  /\ callerPC = "main"
  /\ getmac = GetMACIdle
  /\ EngineInit
  /\ main = [pc |-> "enable", forwarding |-> FALSE, defers |-> <<>>, exit |-> ""]
  /\ NoScan
  /\ NoAnalysis

MainNext ==
  \/ MainEnableIPForwarding
  \/ NewEngine
  \/ GetMACSetup
  \/ GetMACPoll
  \/ NewEngineTarget
  \/ NewEngineGateway
  \/ MainNewEngineFailed
  \/ MainStart
  \/ MainStarted
  \/ MainStartCapture
  \/ MainRun
  \/ MainDeferredStop
  \/ MainStop
  \/ StopSleep
  \/ CleanupTarget
  \/ CleanupGateway
  \/ CleanupSleep
  \/ StopClose
  \/ MainStopReturned
  \/ MainDeferredDisable
  \/ MainExit
  \/ \E t \in StartIds : MainLoopStop(t)
  \/ \E t \in StartIds : MainLoopTick(t)
  \/ \E t \in StartIds : MainSpoofTarget(t)
  \/ \E t \in StartIds : MainSpoofGateway(t)

SpecMain == MainInit /\ [][MainNext]_vars

\* GetMAC called on its own, with any ipStr
GetMACInit ==
  /\ callerPC = "getmac"
  /\ EngineInit
  /\ NoMain
  /\ NoScan
  /\ NoAnalysis
  /\ \E ip \in {TargetIP, GatewayIP, OtherIP}, valid \in BOOLEAN :
       getmac = [GetMACCall(ip) EXCEPT !.valid = valid]

GetMACNext ==
  \/ GetMACSetup
  \/ GetMACPoll

\* the reply loop is not suspended forever: every select returns after 100ms at most
SpecGetMAC == GetMACInit /\ [][GetMACNext]_vars /\ WF_vars(GetMACPoll)

\* One Scan call on an interface with any address of any of the subnets, with
\* any of the configurations; the spoofer package is not in use.
ScanInit ==
  /\ callerPC = "scan"
  /\ getmac = GetMACIdle
  /\ EngineInit
  /\ NoMain
  /\ NoAnalysis
  /\ scanPC = "call"
  /\ ctxDone = FALSE
  /\ config \in CfgInputs
  /\ localIP \in LocalIPs
  /\ hostBits \in 0 .. MaxHostBits
  /\ currentIP = 0 /\ first = FALSE /\ scanned = 0
  /\ probes = <<>> /\ scanHandle = "closed" /\ doneChan = "open" /\ hostsChan = "open"
  /\ readerPC = "none" /\ readerHost = NoHost
  /\ collectorPC = "none" /\ collectorHost = NoHost /\ discoveredHosts = {}
  /\ result = <<>> /\ scanErr = "" /\ scanPanic = ""
  /\ scanHist = [cfg |-> config, firedAfter |-> -1, sawCancel |-> "", sendErrors |-> 0,
                 firstReply |-> {}]

ScanNext ==
  \/ ScanSetup
  \/ ScanCancel
  \/ ScanProbe
  \/ ScanWait
  \/ ScanCloseDone
  \/ ScanCloseHosts
  \/ ScanReturn
  \/ ReaderReturn
  \/ ReaderPacket
  \/ ReaderSend
  \/ CollectorStore
  \/ CollectorReturn

SpecScan == ScanInit /\ [][ScanNext]_vars

\* the same, with the Go scheduler running every goroutine that can take a step,
\* and the channel operations of the reader and the collector completing when
\* they can
SpecScanFair ==
  /\ SpecScan
  /\ WF_vars(ScanProbe) /\ WF_vars(ScanWait) /\ WF_vars(ScanCloseDone)
  /\ WF_vars(ScanCloseHosts) /\ WF_vars(ScanReturn)
  /\ WF_vars(ReaderReturn) /\ WF_vars(ReaderSend)
  /\ WF_vars(CollectorStore) /\ WF_vars(CollectorReturn)

\* a configuration with MaxHosts set
WithMaxHosts(n) == [isNil |-> FALSE, MaxHosts |-> n]

\* The calls of Scan on which the probe cap decides: no configuration on a subnet
\* of CapHostBits host bits; caps below, at and above the floor on a subnet of
\* FloorHostBits host bits; no cap and a large cap on a /30, a /31 and a /32.
CapCalls ==
  {<<[isNil |-> TRUE, MaxHosts |-> 0], CapHostBits>>}
    \cup {<<WithMaxHosts(n), FloorHostBits>> : n \in {1, MinMaxHosts - 1, MinMaxHosts, 600}}
    \cup {<<WithMaxHosts(n), h>> : n \in {-1, 0, 600}, h \in 0 .. 2}

ScanCapInit ==
  /\ callerPC = "scan"
  /\ getmac = GetMACIdle
  /\ EngineInit
  /\ NoMain
  /\ NoAnalysis
  /\ scanPC = "call"
  /\ ctxDone = FALSE
  /\ \E c \in CapCalls : config = c[1] /\ hostBits = c[2]
  /\ localIP \in {0, 1}
  /\ currentIP = 0 /\ first = FALSE /\ scanned = 0
  /\ probes = <<>> /\ scanHandle = "closed" /\ doneChan = "open" /\ hostsChan = "open"
  /\ readerPC = "none" /\ readerHost = NoHost
  /\ collectorPC = "none" /\ collectorHost = NoHost /\ discoveredHosts = {}
  /\ result = <<>> /\ scanErr = "" /\ scanPanic = ""
  /\ scanHist = [cfg |-> config, firedAfter |-> -1, sawCancel |-> "", sendErrors |-> 0,
                 firstReply |-> {}]

\* a pass of the probe loop in which no write fails
ScanProbeWritten == ScanProbe /\ scanHist'.sendErrors = scanHist.sendErrors

\* Scan's own goroutine up to the idle wait, with no reply arriving and no
\* cancellation
ScanCapNext ==
  \/ ScanSetup
  \/ ScanProbeWritten

SpecScanCap == ScanCapInit /\ [][ScanCapNext]_vars

\* a run of the analysis package with traffic of one kind; the other packages
\* are not in use
AnalysisInit(kind) ==
  /\ callerPC = "analysis"
  /\ getmac = GetMACIdle
  /\ EngineInit
  /\ NoMain
  /\ NoScan
  /\ Analysis(kind)

\* The statistics of one capture: two goroutines call ProcessPacket while time
\* passes and the readers are called.
StatsInit == AnalysisInit("concurrent")

StatsNext ==
  \/ Tick
  \/ \E g \in Callers : StatsProcessPacket(g)
  \/ \E g \in Callers : StatsDetect(g)
  \/ \E g \in Callers : StatsReturn(g)
  \/ GetRates
  \/ GetTopTalkers
  \/ GetProtocolStats
  \/ GetDomainLog
  \/ GetAlerts

SpecStats == StatsInit /\ [][StatsNext]_vars

\* The statistics of one capture: two goroutines in ProcessPacket, update by
\* update, while time passes and the readers that take s.mu are called.
AtomicInit == AnalysisInit("atomic")

AtomicNext ==
  \/ Tick
  \/ \E g \in Callers : StatsLock(g)
  \/ \E g \in Callers : StatsUpdate(g)
  \/ \E g \in Callers : StatsUnlock(g)
  \/ \E g \in Callers : StatsDetect(g)
  \/ \E g \in Callers : StatsReturn(g)
  \/ GetRates
  \/ GetTopTalkers
  \/ GetProtocolStats
  \/ GetDomainLog

SpecAtomic == AtomicInit /\ [][AtomicNext]_vars

\* The top talkers and the recent alerts of one capture, asked for with
\* positive, zero and negative limits.
LimitsInit == AnalysisInit("limits")

LimitsNext ==
  \/ \E g \in Callers : StatsProcessPacket(g)
  \/ \E g \in Callers : StatsDetect(g)
  \/ \E g \in Callers : StatsReturn(g)
  \/ GetTopTalkers
  \/ DetectorGetRecentAlerts

SpecLimits == LimitsInit /\ [][LimitsNext]_vars

\* The rates and the top talkers of one capture, fed by the capture's goroutine
\* alone.
TalkersInit == AnalysisInit("talkers")

TalkersNext ==
  \/ Tick
  \/ \E g \in Callers : StatsProcessPacket(g)
  \/ \E g \in Callers : StatsDetect(g)
  \/ \E g \in Callers : StatsReturn(g)
  \/ GetRates
  \/ GetTopTalkers

SpecTalkers == TalkersInit /\ [][TalkersNext]_vars

\* The domain log of one capture whose records differ in destination port,
\* protocol and host name.
DomainsInit == AnalysisInit("domains")

DomainsNext ==
  \/ Tick
  \/ \E g \in Callers : StatsProcessPacket(g)
  \/ \E g \in Callers : StatsDetect(g)
  \/ \E g \in Callers : StatsReturn(g)
  \/ GetDomainLog

SpecDomains == DomainsInit /\ [][DomainsNext]_vars

\* The domain log of one capture with more host names than the log holds, read
\* at one instant.
DomainLogInit == AnalysisInit("numbered")

DomainLogNext ==
  \/ \E g \in Callers : StatsProcessPacket(g)
  \/ \E g \in Callers : StatsDetect(g)
  \/ \E g \in Callers : StatsReturn(g)
  \/ GetDomainLog

SpecDomainLog == DomainLogInit /\ [][DomainLogNext]_vars

\* The statistics and the detector of one capture whose records lack a source
\* address, a host name or a protocol.
FieldsInit == AnalysisInit("fields")

SpecFields == FieldsInit /\ [][DomainLogNext]_vars

\* A fresh detector with the default configuration, fed with broadcast records.
StormInit == AnalysisInit("storm")

StormNext ==
  \/ Tick
  \/ DetectorProcessPacket

SpecStorm == StormInit /\ [][StormNext]_vars

\* A fresh detector with the default configuration, fed with a flood of records
\* from one source and a few from another.
DoSInit == AnalysisInit("dos")

SpecDoS == DoSInit /\ [][StormNext]_vars

\* a fresh detector with a configuration of the caller's
DetectorInit(kind, cfg) ==
  /\ callerPC = "analysis"
  /\ getmac = GetMACIdle
  /\ EngineInit
  /\ NoMain
  /\ NoScan
  /\ clock = 0
  /\ traffic = kind
  /\ stats = NewTrafficStats(clock)
  /\ statsPC = [g \in Callers |-> "idle"]
  /\ statsPkt = [g \in Callers |-> NoPkt]
  /\ statsOut = NoOutput
  /\ statsHist = StatsHistInit
  /\ ad = NewAnomalyDetector(cfg, clock)
  /\ adHist = [raised |-> <<>>, seen |-> <<>>, raisedAt |-> <<>>]
  /\ mem = NewMemory

\* the default configuration with an alert for every record that has a source
AlertAlways == [DefaultConfig EXCEPT !.DoSThreshold = 0]

\* A detector that raises an alert for every record, and the readers of its
\* alert history.
AlertsInit == DetectorInit("alerts", AlertAlways)

AlertsNext ==
  \/ Tick
  \/ DetectorProcessPacket
  \/ DetectorGetRecentAlerts

SpecAlerts == AlertsInit /\ [][AlertsNext]_vars

\* One goroutine in ProcessPacket, with a detector that raises an alert for
\* every record, and a caller of the readers that writes to the lists it gets.
MemoryInit == DetectorInit("memory", AlertAlways)

MemoryNext ==
  \/ MemProcessPacket
  \/ MemGetDomainLog
  \/ MemGetRecentAlerts
  \/ MemGetTopTalkers
  \/ MemGetProtocolStats
  \/ CallerWrites

SpecMemory == MemoryInit /\ [][MemoryNext]_vars

\* the default configuration with a cleanup pass every second that drops what is
\* older than two seconds
QuickCleanup ==
  [DefaultConfig EXCEPT !.CleanupInterval = Seconds(1), !.DataRetention = Seconds(2)]

\* A fresh detector with one of two configurations, fed with records to
\* plaintext and other ports.
UnsecureInit ==
  /\ callerPC = "analysis"
  /\ getmac = GetMACIdle
  /\ EngineInit
  /\ NoMain
  /\ NoScan
  /\ clock = 0
  /\ traffic = "unsecure"
  /\ stats = NewTrafficStats(clock)
  /\ statsPC = [g \in Callers |-> "idle"]
  /\ statsPkt = [g \in Callers |-> NoPkt]
  /\ statsOut = NoOutput
  /\ statsHist = StatsHistInit
  /\ ad \in {NewAnomalyDetector(cfg, clock) : cfg \in {DefaultConfig, QuickCleanup}}
  /\ adHist = [raised |-> <<>>, seen |-> <<>>, raisedAt |-> <<>>]
  /\ mem = NewMemory

SpecUnsecure == UnsecureInit /\ [][StormNext]_vars

\* A detector whose cleanup passes come every second, fed with records that
\* leave tracking data behind and records that leave none.
CleanupInit == DetectorInit("cleanup", QuickCleanup)

SpecCleanup == CleanupInit /\ [][StormNext]_vars

\* the broadcast thresholds of the detectors that watch the broadcast window
WindowThresholds == {1, 2}

\* A fresh detector with a broadcast threshold of the caller's, fed with
\* broadcast records and records no rule looks at, at any instants.
WindowInit ==
  \E th \in WindowThresholds :
    DetectorInit("window", [DefaultConfig EXCEPT !.BroadcastThreshold = th])

SpecWindow == WindowInit /\ [][StormNext]_vars

\* The statistics fed with the records convertToModel makes of tshark's
\* packets, as main's packet processor does.
CaptureInit == AnalysisInit("capture")

SpecCapture == CaptureInit /\ [][DomainLogNext]_vars

\* The statistics of one capture whose records are of a few protocols or of
\* none, read by GetProtocolStats after any of them.
ProtocolsInit == AnalysisInit("protocols")

ProtocolsNext ==
  \/ \E g \in Callers : StatsProcessPacket(g)
  \/ \E g \in Callers : StatsDetect(g)
  \/ \E g \in Callers : StatsReturn(g)
  \/ GetProtocolStats

SpecProtocols == ProtocolsInit /\ [][ProtocolsNext]_vars

\* the pairs of BroadcastThreshold and DoSThreshold of the detectors that are
\* driven past their thresholds
ThresholdPairs == {<<0, 1>>, <<1, 2>>, <<2, 0>>}

\* A fresh detector with thresholds of the caller's, fed with broadcast records
\* and records from two sources, in bursts with pauses.
ThresholdsInit ==
  \E th \in ThresholdPairs :
    DetectorInit("thresholds", [DefaultConfig EXCEPT !.BroadcastThreshold = th[1],
                                                     !.DoSThreshold = th[2]])

SpecThresholds == ThresholdsInit /\ [][StormNext]_vars

\* ------------------------------------------------------------------ claims
\* the frames of section 4.3, field by field
ForgedToTarget ==
  [srcMAC |-> HostMAC, dstMAC |-> engine.TargetMAC, op |-> ARPReply,
   sha |-> HostMAC, spa |-> GatewayIP, tha |-> engine.TargetMAC, tpa |-> TargetIP]
ForgedToGateway ==
  [srcMAC |-> HostMAC, dstMAC |-> engine.GatewayMAC, op |-> ARPReply,
   sha |-> HostMAC, spa |-> TargetIP, tha |-> engine.GatewayMAC, tpa |-> GatewayIP]
TrueGatewayToTarget ==
  [srcMAC |-> engine.GatewayMAC, dstMAC |-> engine.TargetMAC, op |-> ARPReply,
   sha |-> engine.GatewayMAC, spa |-> GatewayIP, tha |-> engine.TargetMAC, tpa |-> TargetIP]
TrueTargetToGateway ==
  [srcMAC |-> engine.TargetMAC, dstMAC |-> engine.GatewayMAC, op |-> ARPReply,
   sha |-> engine.TargetMAC, spa |-> TargetIP, tha |-> engine.GatewayMAC, tpa |-> GatewayIP]

\* C1: a Stop call that found the engine running ends (returns or panics) having
\* attempted exactly six restoration frames: three rounds, each the gateway's true
\* mapping to the target and then the target's true mapping to the gateway.
C1_StopAttemptsSixRestorations ==
  hist.stopCall \in {"returned", "panicked"} =>
    hist.restoreLog = <<TrueGatewayToTarget, TrueTargetToGateway,
                        TrueGatewayToTarget, TrueTargetToGateway,
                        TrueGatewayToTarget, TrueTargetToGateway>>

\* a spoofLoop goroutine writes a forged frame in this step
ForgedWrite ==
  \E t \in StartIds : Len(hist'.tickLog[t]) = Len(hist.tickLog[t]) + 1

\* C2: once Stop has closed stopChan, no goroutine of spoofLoop writes a forged frame.
C2_NoForgedFrameAfterStopSignal == [][ForgedWrite => stopChan = "open"]_vars

\* C3: no frame is ever written to the capture handle after Stop has closed it.
C3_NoWriteOnClosedHandle == ~hist.wroteClosed

\* C4: whenever the engine is Active, also after a Stop and a later Start, a
\* goroutine of spoofLoop is running for it.
C4_ActiveEngineHasSpoofLoop == (isRunning /\ crashed = "") => Live # {}

\* C5 as stated: every tick handled while the engine is Active attempts exactly two
\* forged frames, the one to the target and then the one to the gateway.
C5_TickAttemptsTwoForged ==
  \A t \in StartIds :
    (isRunning /\ tasks[t] = "select" /\ hist.tickLog[t] # <<>>) =>
      /\ Len(hist.tickLog[t]) = 2
      /\ hist.tickLog[t][1].frame = ForgedToTarget
      /\ hist.tickLog[t][2].frame = ForgedToGateway

\* C5 as amended: in every tick the task attempts the forged frame to the target
\* first, attempts the forged frame to the gateway only after the first write
\* succeeded, and ends the tick without a second attempt after the first one
\* failed; it writes no frame of another form.
C5_TickAttemptsTargetThenGateway ==
  \A t \in StartIds :
    LET log == hist.tickLog[t] IN
    /\ Len(log) <= 2
    /\ Len(log) >= 1 => log[1].frame = ForgedToTarget
    /\ Len(log) = 2 => log[1].res = "ok" /\ log[2].frame = ForgedToGateway
    /\ (tasks[t] = "send2" /\ crashed = "") => Len(log) = 1 /\ log[1].res = "ok"
    /\ (tasks[t] = "send1" /\ crashed = "") => log = <<>>
    /\ (tasks[t] \in {"select", "done"} /\ Len(log) = 1) => log[1].res = "error"

\* C5: a tick that ended after a failed first write, with one frame attempted
C5_Witness ==
  \E t \in StartIds :
    /\ isRunning /\ tasks[t] = "select"
    /\ Len(hist.tickLog[t]) = 1 /\ hist.tickLog[t][1].res = "error"

\* task t gets an error from a write in this step
TickError(t) ==
  /\ Len(hist'.tickLog[t]) = Len(hist.tickLog[t]) + 1
  /\ hist'.tickLog[t][Len(hist'.tickLog[t])].res = "error"

\* C6: a transmit error in a tick of an Active engine leaves the engine Active and
\* the task running at its select, from where the next tick transmits again.
C6_TickErrorKeepsSession ==
  [][\A t \in StartIds :
       (isRunning /\ TickError(t)) =>
         /\ isRunning' /\ crashed' = ""
         /\ tasks'[t] = "select"]_vars

\* C6: two ticks in a row have failed and the engine is Active with its task alive
C6_Witness ==
  /\ isRunning /\ crashed = "" /\ hist.failedTicks >= 2
  /\ \E t \in StartIds : tasks[t] = "select" /\ hist.tickLog[t] # <<>>

\* C7: an engine exists only if both addresses were resolved, the target first;
\* after a failure there is no engine and nothing was started or forged; a request
\* for the gateway is only sent after the target was resolved.
C7_EngineOnlyIfBothResolved ==
  /\ engine # NoEngine =>
       /\ newEngine.err = ""
       /\ Len(requests) = 2
       /\ requests[1].tpa = TargetIP /\ requests[2].tpa = GatewayIP
       /\ engine.TargetMAC \in {h.sha : h \in {x \in Senders : x.spa = TargetIP}}
       /\ engine.GatewayMAC \in {h.sha : h \in {x \in Senders : x.spa = GatewayIP}}
  /\ (callerPC = "failed" \/ newEngine.err # "") =>
       /\ engine = NoEngine
       /\ hist.starts = 0 /\ hist.ticks = 0
       /\ \A t \in StartIds : tasks[t] = "none" /\ hist.tickLog[t] = <<>>
  /\ \A i \in 1..Len(requests) :
       requests[i].tpa = GatewayIP =>
         /\ i = 2 /\ requests[1].tpa = TargetIP
         /\ newEngine.targetMAC \in {h.sha : h \in {x \in Senders : x.spa = TargetIP}}
  /\ newEngine.err = "failed to resolve target MAC" => Len(requests) <= 1

\* C7: the target's resolution timed out after its request was sent
C7_Witness ==
  /\ callerPC = "failed" /\ newEngine.err = "failed to resolve target MAC"
  /\ getmac.err = "timeout waiting for ARP reply"
  /\ Len(requests) = 1

\* C8: a GetMAC call writes at most one frame, and a call that polls, and so every
\* call that ends in success or in the timeout, has written exactly one: the
\* broadcast ARP request for its IP.
C8_OneRequestPerResolve ==
  /\ getmac.sent <= 1
  /\ Len(requests) = getmac.sent
  /\ (getmac.pc = "poll"
      \/ (getmac.pc = "ret" /\ getmac.err \in {"", "timeout waiting for ARP reply"})) =>
       /\ getmac.sent = 1
       /\ requests = <<[srcMAC |-> HostMAC, dstMAC |-> BroadcastMAC, op |-> ARPRequest,
                        sha |-> HostMAC, spa |-> LocalIP, tha |-> ZeroMAC,
                        tpa |-> getmac.ip]>>

\* C8: a call that timed out after reading packets that did not match
C8_Witness ==
  /\ getmac.pc = "ret" /\ getmac.err = "timeout waiting for ARP reply"
  /\ getmac.last # NoPacket /\ getmac.sent = 1

\* what C9 says of every state of a GetMAC call
C9_Returned ==
  /\ (getmac.pc = "ret" /\ getmac.err = "") =>
       /\ getmac.sent = 1
       /\ getmac.last.op = ARPReply /\ getmac.last.spa = getmac.ip
       /\ getmac.mac = getmac.last.sha
  /\ getmac.pc = "poll" => getmac.elapsed <= Timeout + PollInterval
  /\ getmac.err = "timeout waiting for ARP reply" =>
       /\ getmac.elapsed > Timeout
       /\ getmac.elapsed <= Timeout + PollInterval

\* C9: GetMAC returns a MAC only as the sender hardware address of an ARP reply from
\* the requested IP read after its request; a call that polls returns, and with the
\* timeout no later than one polling interval after the 3s deadline.
C9_ResolveOnlyOnMatchingReply ==
  /\ []C9_Returned
  /\ (getmac.pc = "poll") ~> (getmac.pc = "ret")

\* C9: a call that read a request from its IP and ended with the timeout
C9_Witness ==
  /\ getmac.pc = "ret" /\ getmac.err = "timeout waiting for ARP reply"
  /\ getmac.last.op = ARPRequest /\ getmac.last.spa = getmac.ip
  /\ getmac.elapsed = Timeout + PollInterval

\* the Scan call returned after one of its two selects took <-ctx.Done()
ScanReturnedOnCancel == scanPC = "returned" /\ scanHist.sawCancel # ""

\* C10: a Scan that observed the cancellation returns a cancellation failure
\* when no probe had been sent, and returns the accumulated hosts without a
\* failure when at least one probe had been sent, at a tick or in the idle wait.
C10_CancelAfterProbeReturnsHosts ==
  ScanReturnedOnCancel =>
    IF scanHist.firedAfter = 0
    THEN scanErr = ContextCanceled
    ELSE scanErr = "" /\ result = SortHosts(discoveredHosts)

\* the subnet of the interface: its first address, its last address, its addresses
SubnetFirst == localIP - (localIP % Pow2(hostBits))
SubnetLast == SubnetFirst + Pow2(hostBits) - 1
SubnetAddresses == SubnetFirst .. SubnetLast

\* C11: the ARP requests of a Scan go to addresses in strictly ascending order
\* (so to no address twice), and never to the network address, the broadcast
\* address or the local address, whatever the size of the subnet.
C11_ProbesAscendingAndSkipping ==
  /\ \A i \in 1 .. Len(probes) :
       /\ probes[i] \in SubnetAddresses
       /\ probes[i] # SubnetFirst
       /\ probes[i] # SubnetLast
       /\ probes[i] # localIP
  /\ \A i \in 1 .. Len(probes), j \in 1 .. Len(probes) : i < j => probes[i] < probes[j]
  /\ hostBits <= 1 => probes = <<>>

\* C11: the Scan of a /30 whose interface has the network's first usable
\* address has passed over the local address and the broadcast address and has
\* sent its one request, to the other usable address
C11_Witness ==
  /\ scanPC = "wait" /\ hostBits = 2 /\ localIP = SubnetFirst + 1
  /\ probes = <<SubnetFirst + 2>>

\* the effective probe cap for a cfg argument, 0 standing for no cap
EffectiveCap(cfg) ==
  IF cfg.isNil THEN 4096
  ELSE IF cfg.MaxHosts <= 0 THEN 0
  ELSE IF cfg.MaxHosts < 512 THEN 512
  ELSE cfg.MaxHosts

\* the addresses of the subnet other than its first, its last and the local one
UsableAddresses == SubnetAddresses \ {SubnetFirst, SubnetLast, localIP}

\* C12: the ARP requests sent in one Scan never number more than the effective
\* cap for the cfg it was called with, nor more than the usable addresses of
\* the subnet: at most 2 on a /30.
C12_ProbesWithinCapAndSubnet ==
  /\ EffectiveCap(scanHist.cfg) > 0 => Len(probes) <= EffectiveCap(scanHist.cfg)
  /\ Len(probes) <= Cardinality(UsableAddresses)
  /\ hostBits = 2 => Len(probes) <= 2
  /\ scanPC # "call" =>
       config.MaxHosts = IF EffectiveCap(scanHist.cfg) = 0 THEN -1
                         ELSE EffectiveCap(scanHist.cfg)

\* C12: a Scan called with MaxHosts = 1 on a subnet with more than 512 usable
\* addresses has left the probe loop with 512 requests sent
C12_Witness ==
  /\ scanPC = "wait" /\ scanHist.cfg = WithMaxHosts(1)
  /\ Len(probes) = 512 /\ Contains(currentIP)
  /\ Cardinality(UsableAddresses) > 512

\* Scan returned a list and no error
ScanSucceeded == scanPC = "returned" /\ scanErr = ""

\* C13: the list a successful Scan returns is in strictly ascending order of IP
\* (so holds no IP twice), and each of its hosts has the IP and the MAC of the
\* first ARP reply the reader received from that IP, an IP inside the subnet
\* that is not the local one.
C13_ResultSortedUniqueFirstReply ==
  ScanSucceeded =>
    /\ \A i \in 1 .. Len(result) :
         /\ result[i] \in scanHist.firstReply
         /\ result[i].IP \in SubnetAddresses
         /\ result[i].IP # localIP
    /\ \A i \in 1 .. Len(result), j \in 1 .. Len(result) :
         i < j => result[i].IP < result[j].IP

\* C13: a Scan returned two hosts in order, the second with the MAC of its
\* first reply, while the collector holds a later reply from the same IP
\* with another MAC
C13_Witness ==
  /\ ScanSucceeded
  /\ result = <<[IP |-> SubnetFirst + 1, MAC |-> "macA"],
                [IP |-> SubnetFirst + 2, MAC |-> "macA"]>>
  /\ collectorPC = "store"
  /\ collectorHost = [IP |-> SubnetFirst + 2, MAC |-> "macB"]


\* ---- analysis.TrafficStats
RECURSIVE SumLength(_)
\* the sum of Length over a sequence of records
SumLength(records) ==
  IF records = <<>> THEN 0 ELSE records[1].Length + SumLength(Tail(records))

\* the step is a call of one of the readers of TrafficStats, which leaves its
\* result in statsOut
ReaderCall ==
  statsOut'.op \in {"GetRates", "GetTopTalkers", "GetProtocolStats", "GetDomainLog",
                    "GetAlerts"}

C14_TotalIsSumOfLengths == stats.totalBytes = SumLength(statsHist.processed)

C14_ReadersKeepTotal == [][ReaderCall => stats'.totalBytes = stats.totalBytes]_vars

\* C14: whatever ProcessPacket calls two goroutines have made, finished or still
\* in the detector, totalBytes is the sum of Length over the records counted, each
\* once; and no call of GetRates, GetTopTalkers, GetProtocolStats, GetDomainLog
\* or GetAlerts changes totalBytes.
C14_TotalCountsEachRecordOnce == []C14_TotalIsSumOfLengths /\ C14_ReadersKeepTotal

\* both goroutines are inside ProcessPacket at once, one with a record without a
\* source address, and a reader has run since
C14_Witness ==
  /\ statsPC["g1"] = "detect" /\ statsPC["g2"] = "detect"
  /\ statsHist.processed = <<Traffic("", 300), Traffic(IPB, 500)>>
  /\ stats.totalBytes = 800
  /\ statsOut.op = "GetTopTalkers"

\* the bytes counted are in the current window or a rate was returned for them
C15_CountedBytesAreReported ==
  statsHist.reported + stats.windowBytes = SumLength(statsHist.processed)

C15_ZeroElapsedKeepsWindow ==
  [][GetRates /\ clock = stats.lastTick
       => statsOut'.val = <<Zero, Zero>> /\ stats' = stats]_vars

C15_IdleWindowIsReset ==
  [][GetRates /\ clock > stats.lastTick /\ Len(statsHist.processed) = statsHist.resetAt
       => statsOut'.val = <<Zero, Zero>> /\ stats'.lastTick = clock]_vars

\* C15: GetRates called at the instant of lastTick returns (0, 0) and changes no
\* field of the statistics, so that the bytes of every record counted are either
\* still in the window or were reported by a call that returned their rate;
\* GetRates called later than lastTick with no record counted since the last
\* reset returns (0, 0) and sets lastTick to the current instant.
C15_RatesAtZeroAndPositiveElapsed ==
  /\ []C15_CountedBytesAreReported
  /\ C15_ZeroElapsedKeepsWindow
  /\ C15_IdleWindowIsReset

\* GetRates, called a tick after construction with nothing counted, has moved
\* lastTick; called again at that instant, after a record of 500 bytes, it has
\* returned (0, 0) and left the 500 bytes in the window
C15_Witness ==
  /\ statsOut = Output("GetRates", 0, <<Zero, Zero>>)
  /\ statsHist.processed = <<Traffic(IPA, 500)>> /\ statsHist.resetAt = 0
  /\ stats.lastTick = 1 /\ clock = 1
  /\ stats.windowBytes = 500 /\ statsHist.reported = 0

\* the source addresses of the records counted
Sources == {statsHist.processed[i].SrcIP : i \in 1 .. Len(statsHist.processed)} \ {""}

RECURSIVE BytesFrom(_, _)
\* the sum of Length over the records of a sequence that come from ip
BytesFrom(ip, records) ==
  IF records = <<>> THEN 0
  ELSE (IF records[1].SrcIP = ip THEN records[1].Length ELSE 0) + BytesFrom(ip, Tail(records))

Min(a, b) == IF a < b THEN a ELSE b

\* C16: GetTopTalkers(n), n >= 0, returns min(n, number of source addresses
\* counted) entries, each a different source address with the sum of Length over
\* its records, no entry with more bytes than one before it and no source left
\* out with more bytes than one returned; after (10.0.0.1, 500), (10.0.0.2, 300),
\* (10.0.0.1, 200) GetTopTalkers(2) is <<{10.0.0.1, 700}, {10.0.0.2, 300}>>.
C16_TopTalkersAreTheLargest ==
  statsOut.op = "GetTopTalkers" =>
    LET top == statsOut.val
        returned == {top[i].IP : i \in 1 .. Len(top)}
    IN /\ Len(top) = Min(statsOut.arg, Cardinality(Sources))
       /\ Cardinality(returned) = Len(top)
       /\ \A i \in 1 .. Len(top) :
            /\ top[i].IP \in Sources
            /\ top[i].Bytes = BytesFrom(top[i].IP, statsHist.processed)
            /\ \A j \in i + 1 .. Len(top) : top[i].Bytes >= top[j].Bytes
            /\ \A ip \in Sources \ returned :
                 BytesFrom(ip, statsHist.processed) <= top[i].Bytes
       /\ (statsHist.processed = <<Traffic(IPA, 500), Traffic(IPB, 300), Traffic(IPA, 200)>>
             /\ statsOut.arg = 2
             => top = <<[IP |-> IPA, Bytes |-> 700], [IP |-> IPB, Bytes |-> 300]>>)

\* GetTopTalkers(1) after (10.0.0.2, 500), (10.0.0.1, 200), (10.0.0.1, 500): the
\* source counted second is returned and the source counted first is left out
C16_Witness ==
  /\ statsHist.processed = <<Traffic(IPB, 500), Traffic(IPA, 200), Traffic(IPA, 500)>>
  /\ statsOut = Output("GetTopTalkers", 1, <<[IP |-> IPA, Bytes |-> 700]>>)

\* the records counted that have a host name, in order
Hosted == SelectSeq(statsHist.processed, LAMBDA r : r.Hostname # NoHostname)

\* C17: the domain log holds the entries of the last min(k, 50) of the k records
\* counted that have a host name, in the order they were counted; it never has
\* more than 50 entries, and the 51st entry pushes out the first and no other.
C17_DomainLogHoldsLastFifty ==
  LET k == Len(Hosted)
      m == Min(k, 50)
  IN /\ Len(stats.domainLog) = m
     /\ \A i \in 1 .. m : stats.domainLog[i].Hostname = Hosted[k - m + i].Hostname

\* 51 records with a host name, after one without, have been counted: the log
\* starts at the second of them
C17_Witness ==
  /\ Len(statsHist.processed) = 52
  /\ statsHist.processed[1].Hostname = NoHostname
  /\ Len(Hosted) = 51
  /\ Len(stats.domainLog) = 50
  /\ stats.domainLog[1].Hostname = Host(3)
  /\ stats.domainLog[50].Hostname = Host(52)

\* the source the claim gives a record with a host name
C18_Source(r) ==
  IF r.DstPort \in {443, 853} THEN "SNI"
  ELSE IF r.DstPort = 53 \/ r.Protocol = "UDP" THEN "DNS"
  ELSE "HTTP"

Raised(type) == SelectSeq(adHist.raised, LAMBDA a : a.Type = type)

\* the second of the run in which the i-th record was processed
SecondOf(i) == adHist.seen[i].at \div TicksPerSecond

\* the records processed in second s of the run
InSecond(s) == {i \in 1 .. Len(adHist.seen) : SecondOf(i) = s}

\* 51 broadcast records have been processed by a detector with threshold 50
FiftyOneBroadcasts ==
  /\ ad.config.BroadcastThreshold = 50
  /\ Len(adHist.seen) = 51
  /\ \A i \in 1 .. 51 : adHist.seen[i].pkt.EthDst = BroadcastMAC

\* C19: a fresh detector with BroadcastThreshold 50 that has processed 51
\* broadcast records, the last less than a second after the first, has raised
\* one BROADCAST_STORM alert; one that has processed them in three different
\* seconds of the clock, at most 50 in each, has raised none.
C19_StormAlertOnlyWithinASecond ==
  FiftyOneBroadcasts =>
    /\ adHist.seen[51].at - adHist.seen[1].at < Seconds(1)
          => Len(Raised("BROADCAST_STORM")) = 1
    /\ (/\ Cardinality({SecondOf(i) : i \in 1 .. 51}) = 3
        /\ \A i \in 1 .. 51 : Cardinality(InSecond(SecondOf(i))) <= 50)
          => Len(Raised("BROADCAST_STORM")) = 0

\* one record in the first second, 49 in the next, half a second later, and the
\* last in the third: the window of the first 50 has ended, nothing is raised
C19_Witness ==
  /\ FiftyOneBroadcasts
  /\ adHist.seen[1].at = TicksPerSecond - 1
  /\ adHist.seen[2].at = TicksPerSecond /\ adHist.seen[50].at = TicksPerSecond
  /\ adHist.seen[51].at = 2 * TicksPerSecond
  /\ adHist.raised = <<>>
  /\ ad.broadcastCount = 1

\* C20: for every configuration, two UNSECURE_PROTOCOL alerts for the same source
\* address and port are more than UnsecureCooldown apart, cleanup passes or not;
\* two records from one source to port 80, five seconds apart with a cooldown of
\* ten, raise one alert; a record to a port other than 80, 21 and 23 raises none.
C20_UnsecureAlertsThrottled ==
  LET alerts == Raised("UNSECURE_PROTOCOL")
  IN /\ \A i, j \in 1 .. Len(alerts) :
          i < j /\ alerts[i].Source = alerts[j].Source /\ alerts[i].Detail = alerts[j].Detail
            => alerts[j].Timestamp - alerts[i].Timestamp > ad.config.UnsecureCooldown
     /\ \A i \in 1 .. Len(alerts) : alerts[i].Detail \in {80, 21, 23}
     /\ (/\ Len(adHist.seen) = 2
         /\ adHist.seen[1].pkt = adHist.seen[2].pkt
         /\ adHist.seen[1].pkt.DstPort = 80
         /\ adHist.seen[2].at - adHist.seen[1].at = Seconds(5)
         /\ ad.config.UnsecureCooldown = Seconds(10))
          => Len(alerts) = 1

\* the POSSIBLE_DOS alerts raised so far for one source
DoSAlerts(src) == SelectSeq(Raised("POSSIBLE_DOS"), LAMBDA a : a.Source = src)

\* the records from an alert's source processed in the second that ends with it
InWindowOf(a) ==
  {i \in 1 .. Len(adHist.seen) :
     /\ adHist.seen[i].pkt.SrcIP = a.Source
     /\ adHist.seen[i].at <= a.Timestamp
     /\ a.Timestamp - adHist.seen[i].at <= Seconds(1)}

\* 501 records of one source, the last at most a second after the first
FloodWithinASecond(src) ==
  /\ ad.config.DoSThreshold = 500
  /\ Len(SeenFrom(src)) = 501
  /\ SeenFrom(src)[501].at - SeenFrom(src)[1].at <= Seconds(1)

C21_AlertsOfSources ==
  /\ \A src \in {IPA, IPB} :
       FloodWithinASecond(src) => Len(DoSAlerts(src)) = 1
  /\ \A i \in 1 .. Len(Raised("POSSIBLE_DOS")) :
       Cardinality(InWindowOf(Raised("POSSIBLE_DOS")[i])) > 500

C21_OtherSourcesUntouched ==
  DetectorProcessPacket =>
    \A ip \in DOMAIN ad.ipWindow :
      ip # adHist'.seen[Len(adHist'.seen)].pkt.SrcIP
        => /\ ip \in DOMAIN ad'.ipWindow
           /\ ad'.ipWindow[ip] = ad.ipWindow[ip]
           /\ ad'.ipPacketCount[ip] = ad.ipPacketCount[ip]

\* C21: a fresh detector with DoSThreshold 500 that has processed 501 records of
\* one source, the last at most a second after the first, has raised exactly one
\* POSSIBLE_DOS alert with that source; every such alert has more than 500
\* records of its source in the second before it, so 500 or fewer raise none;
\* and a record of one source leaves the counter and the window of every other
\* source as they were.
C21_DoSAlertPerSource ==
  []C21_AlertsOfSources /\ [][C21_OtherSourcesUntouched]_vars

\* 250 records of IPA, one of IPB, 251 more of IPA, the last a second after the
\* first: one alert, for IPA, and IPB's counter stands at one
C21_Witness ==
  /\ FloodWithinASecond(IPA)
  /\ SeenFrom(IPA)[501].at - SeenFrom(IPA)[1].at = Seconds(1)
  /\ adHist.seen[251].pkt.SrcIP = IPB
  /\ Len(DoSAlerts(IPA)) = 1 /\ Len(Raised("POSSIBLE_DOS")) = 1
  /\ ad.ipPacketCount[IPB] = 1 /\ ad.ipPacketCount[IPA] = 0

\* the last n elements of a sequence, all of them if it has fewer
LastOf(seq, n) == SubSeq(seq, Len(seq) - Min(n, Len(seq)) + 1, Len(seq))

C22_HistoryIsLastTwenty ==
  /\ Len(ad.alerts) <= 20
  /\ ad.alerts = LastOf(adHist.raised, 20)

C22_RecentAlertsAreTheLatest ==
  statsOut.op = "GetRecentAlerts" /\ statsOut.arg >= 0
    => /\ statsOut.panic = ""
       /\ Len(statsOut.val) = Min(statsOut.arg, Len(ad.alerts))
       /\ statsOut.val = LastOf(adHist.raised, Len(statsOut.val))

C22_FullHistoryEvictsOldest ==
  DetectorProcessPacket /\ Len(ad.alerts) = 20 /\ Len(adHist'.raised) = Len(adHist.raised) + 1
    => ad'.alerts = Append(Tail(ad.alerts), adHist'.raised[Len(adHist'.raised)])

\* C22: the alert history never holds more than 20 alerts and is always the
\* last 20 alerts raised, in the order they were raised; an alert added to a
\* history of 20 removes its first alert and no other; GetRecentAlerts(n) with
\* n >= 0 returns the last min(n, size) alerts raised, oldest first.
C22_AlertHistoryKeepsNewest ==
  /\ []C22_HistoryIsLastTwenty
  /\ []C22_RecentAlertsAreTheLatest
  /\ [][C22_FullHistoryEvictsOldest]_vars

\* 21 alerts raised, the first for IPB and the last a tick later than the rest:
\* the history has lost the one for IPB, and GetRecentAlerts(5) returns five
\* alerts for IPA, the last with the later timestamp
C22_Witness ==
  /\ Len(adHist.raised) = 21
  /\ adHist.raised[1].Source = IPB
  /\ Len(ad.alerts) = 20
  /\ \A i \in 1 .. 20 : ad.alerts[i].Source = IPA
  /\ statsOut.op = "GetRecentAlerts" /\ statsOut.arg = 5
  /\ Len(statsOut.val) = 5
  /\ statsOut.val[4].Timestamp = 0 /\ statsOut.val[5].Timestamp = 1

\* the detector processes a record in this step
Processing == Len(adHist'.seen) = Len(adHist.seen) + 1

\* a cleanup pass ran in this step
CleanupPassed == ad'.lastCleanup # ad.lastCleanup

\* the entries of a map of instants that are older than DataRetention now
Outdated(m) == {k \in DOMAIN m : clock - m[k] > ad.config.DataRetention}

\* the map without some of its keys
Without(m, keys) == [k \in DOMAIN m \ keys |-> m[k]]

C23_PassesAreApart ==
  /\ ~Processing => ad' = ad
  /\ CleanupPassed =>
       /\ ad'.lastCleanup = clock
       /\ clock - ad.lastCleanup > ad.config.CleanupInterval
  /\ Processing /\ clock - ad.lastCleanup > ad.config.CleanupInterval
       => CleanupPassed

C23_PassRemovesTheOutdated ==
  Processing /\ adHist'.seen[Len(adHist'.seen)].pkt = QuietRecord
    => ad' = IF CleanupPassed
               THEN [ad EXCEPT !.lastCleanup = clock,
                               !.unsecureAlerts = Without(@, Outdated(@)),
                               !.ipWindow = Without(@, Outdated(@)),
                               !.ipPacketCount = Without(@, Outdated(ad.ipWindow))]
               ELSE ad

\* C23: the detector changes only in ProcessPacket; a cleanup pass runs in a
\* ProcessPacket call exactly when more than CleanupInterval has passed since
\* the last pass (or the construction), so two passes are more than
\* CleanupInterval apart; and a call with a record that no rule looks at
\* changes, when a pass runs, only lastCleanup and the three maps, from which
\* exactly the throttle entries and the per-IP entries older than DataRetention
\* are gone: the other entries, the broadcast counter and window and the alert
\* history are as before.
C23_CleanupIsLazyAndExact ==
  [][C23_PassesAreApart]_vars /\ [][C23_PassRemovesTheOutdated]_vars

\* a record from IPA to port 80 at the start, a broadcast record a second
\* later, and a quiet record two seconds after that, with a pass: the throttle
\* entry and the window of IPA are gone, the broadcast count and the alert stay
C23_Witness ==
  /\ Len(adHist.seen) = 3
  /\ adHist.seen[1] = [pkt |-> Packet(IPA, 60, NoHostname, 80, "TCP", ""), at |-> 0]
  /\ adHist.seen[2] = [pkt |-> BroadcastRecord, at |-> Seconds(1)]
  /\ adHist.seen[3] = [pkt |-> QuietRecord, at |-> Seconds(3)]
  /\ ad.lastCleanup = Seconds(3)
  /\ ad.unsecureAlerts = EmptyMap /\ ad.ipWindow = EmptyMap
  /\ ad.broadcastCount = 1
  /\ Len(ad.alerts) = 1

\* the protocol a record is counted under
CountedAs(r) == IF r.Protocol = "" THEN "Unknown" ELSE r.Protocol

\* the statistics hold the whole update of every record of statsHist.processed
\* and nothing else
WholeRecords ==
  /\ stats.totalBytes = SumLength(statsHist.processed)
  /\ stats.windowBytes + statsHist.reported = SumLength(statsHist.processed)
  /\ stats.windowPackets = Len(statsHist.processed) - statsHist.resetAt
  /\ DOMAIN stats.ipBytes = Sources
  /\ \A ip \in Sources : stats.ipBytes[ip] = BytesFrom(ip, statsHist.processed)
  /\ DOMAIN stats.protocolCounts =
       {CountedAs(statsHist.processed[i]) : i \in 1 .. Len(statsHist.processed)}
  /\ \A p \in DOMAIN stats.protocolCounts :
       stats.protocolCounts[p] =
         Len(SelectSeq(statsHist.processed, LAMBDA r : CountedAs(r) = p))
  /\ Len(stats.domainLog) = Len(Hosted)
  /\ \A i \in 1 .. Len(Hosted) : stats.domainLog[i].Hostname = Hosted[i].Hostname

\* the step is a call of one of the readers that take s.mu
LockedReaderCall ==
  statsOut'.op \in {"GetRates", "GetTopTalkers", "GetProtocolStats", "GetDomainLog"}

\* no ProcessPacket call is between its s.mu.Lock() and its s.mu.Unlock()
NoneCounting == \A g \in Callers : statsPC[g] \in {"idle", "detect", "relock"}

C24_ReadersSeeWholeRecords == LockedReaderCall => WholeRecords

C24_NoUpdateLost == NoneCounting => WholeRecords

\* C24: with ProcessPacket's updates as separate steps, in every interleaving of
\* two ProcessPacket calls with GetRates, GetTopTalkers, GetProtocolStats and
\* GetDomainLog, each reader acts on statistics that hold, for every record
\* whose call has taken s.mu, its whole update (cumulative bytes, window bytes
\* and packets, bytes of the source, count of the protocol, domain log entry)
\* and no part of any other; and whenever no call holds s.mu the same is true,
\* so no update is lost.
C24_ProcessPacketIsAtomic ==
  [][C24_ReadersSeeWholeRecords]_vars /\ []C24_NoUpdateLost

\* both calls are inside ProcessPacket, past their updates and in the detector,
\* and GetDomainLog has just returned the entry of the one record with a host
\* name
C24_Witness ==
  /\ statsPC["g1"] = "detect" /\ statsPC["g2"] = "detect"
  /\ Len(statsHist.processed) = 2
  /\ stats.totalBytes = 800
  /\ DOMAIN stats.protocolCounts = {"UDP", "Unknown"}
  /\ DOMAIN stats.ipBytes = {IPB}
  /\ statsOut.op = "GetDomainLog"
  /\ Len(statsOut.val) = 1

\* a call of one of the readers that return a list
ListReaderCall ==
  MemGetDomainLog \/ MemGetRecentAlerts \/ MemGetTopTalkers \/ MemGetProtocolStats

\* the slices of the two objects hold what their fields are worth
C25_InternalLists ==
  /\ Deref(mem, mem.domainLog) = stats.domainLog
  /\ Deref(mem, mem.alerts) = ad.alerts

C25_ReturnedListIsTheResult ==
  ListReaderCall => statsOut'.panic = "" /\ Deref(mem', mem'.ret) = statsOut'.val

C25_ProcessKeepsReturnedList ==
  MemProcessPacket => mem'.ret = mem.ret /\ Deref(mem', mem'.ret) = Deref(mem, mem.ret)

C25_WriteKeepsInternalState ==
  CallerWrites =>
    /\ stats' = stats /\ ad' = ad
    /\ mem'.domainLog = mem.domainLog /\ mem'.alerts = mem.alerts
    /\ Deref(mem', mem'.domainLog) = Deref(mem, mem.domainLog)
    /\ Deref(mem', mem'.alerts) = Deref(mem, mem.alerts)

\* C25: with slices as headers over backing arrays, the list GetTopTalkers,
\* GetProtocolStats, GetDomainLog or GetRecentAlerts returns holds the result of
\* the call; a later ProcessPacket call leaves the elements of the list the
\* caller holds as they are; and a value the caller stores in an element of
\* that list changes no field of the TrafficStats or the AnomalyDetector and no
\* element of s.domainLog or ad.alerts, which always hold the last domain
\* entries and alerts.
C25_ReturnedListsAreSnapshots ==
  /\ []C25_InternalLists
  /\ [][C25_ReturnedListIsTheResult]_vars
  /\ [][C25_ProcessKeepsReturnedList]_vars
  /\ [][C25_WriteKeepsInternalState]_vars

\* the caller got the domain log after two records and stored a value in its
\* first element, and a third record was processed: the list still has the
\* second entry and the stored value, the domain log has its three entries
C25_Witness ==
  /\ Len(stats.domainLog) = 3
  /\ mem.ret.len = 2
  /\ Deref(mem, mem.ret) = <<Scribble, stats.domainLog[2]>>
  /\ Deref(mem, mem.domainLog)[1].Hostname = statsHist.processed[1].Hostname

\* the number a map of counters holds for a key
Counted(m, k) == IF k \in DOMAIN m THEN m[k] ELSE 0

\* map m with n more for key k and nothing else changed
OneMore(m, after, k, n) ==
  /\ DOMAIN after = DOMAIN m \cup {k}
  /\ \A o \in DOMAIN after : after[o] = Counted(m, o) + (IF o = k THEN n ELSE 0)

C26_AggregatorSkipsEmptyFields ==
  StatsProcessPacket("g1") =>
    LET pkt == statsPkt'["g1"]
    IN /\ stats'.totalBytes = stats.totalBytes + pkt.Length
       /\ stats'.windowBytes = stats.windowBytes + pkt.Length
       /\ stats'.windowPackets = stats.windowPackets + 1
       /\ OneMore(stats.protocolCounts, stats'.protocolCounts, CountedAs(pkt), 1)
       /\ IF pkt.SrcIP = "" THEN stats'.ipBytes = stats.ipBytes
          ELSE OneMore(stats.ipBytes, stats'.ipBytes, pkt.SrcIP, pkt.Length)
       /\ IF pkt.Hostname = NoHostname THEN stats'.domainLog = stats.domainLog
          ELSE /\ Len(stats'.domainLog) = Len(stats.domainLog) + 1
               /\ SubSeq(stats'.domainLog, 1, Len(stats.domainLog)) = stats.domainLog
               /\ stats'.domainLog[Len(stats'.domainLog)].Hostname = pkt.Hostname

C26_DetectorSkipsEmptySource ==
  StatsDetect("g1") =>
    IF statsPkt["g1"].SrcIP = ""
      THEN ad'.ipWindow = ad.ipWindow /\ ad'.ipPacketCount = ad.ipPacketCount
      ELSE /\ statsPkt["g1"].SrcIP \in DOMAIN ad'.ipWindow
           /\ statsPkt["g1"].SrcIP \in DOMAIN ad'.ipPacketCount

C26_NoEntryForEmptySource ==
  "" \notin DOMAIN stats.ipBytes \cup DOMAIN ad.ipWindow \cup DOMAIN ad.ipPacketCount

\* C26: every ProcessPacket call adds the record's length to the cumulative and
\* the window bytes, one to the window packets and one to the count of its
\* protocol ("Unknown" for none), whatever fields are empty; it adds the length
\* to the bytes of the source address only if there is one, and an entry to the
\* domain log only if there is a host name; the detector's call changes no
\* per-IP window or counter for a record without source address; and no map
\* ever has an entry for the empty address.
C26_EmptyFieldsAreSkipped ==
  /\ [][C26_AggregatorSkipsEmptyFields]_vars
  /\ [][C26_DetectorSkipsEmptySource]_vars
  /\ []C26_NoEntryForEmptySource

\* a record without source address, host name and protocol, then one with all
\* three: both are counted, the second alone has entries
C26_Witness ==
  /\ statsHist.processed =
       <<Packet("", 100, NoHostname, 80, "", ""), Packet(IPA, 100, Host(1), 80, "TCP", "")>>
  /\ statsPC["g1"] = "idle"
  /\ stats.totalBytes = 200 /\ stats.windowPackets = 2
  /\ DOMAIN stats.protocolCounts = {"Unknown", "TCP"}
  /\ DOMAIN stats.ipBytes = {IPA}
  /\ Len(stats.domainLog) = 1
  /\ DOMAIN ad.ipWindow = {IPA}
  /\ Len(adHist.seen) = 2

\* C27: GetTopTalkers(n) and GetRecentAlerts(n) return a list, and do not
\* panic, for every n, negative ones included, on an empty and on a populated
\* TrafficStats and AnomalyDetector.
C27_LimitedReadersNeverFail ==
  statsOut.op \in {"GetTopTalkers", "GetRecentAlerts"} => statsOut.panic = ""

\* C28: in every interleaving of Scan with its reader, the reader never runs
\* hostsChan <- host after Scan's close(hostsChan): no run ends in the panic
\* "send on closed channel".
C28_NoSendOnClosedChannel == scanPanic # "send on closed channel"

\* a goroutine of Scan was never started or has returned
Stopped(pc) == pc \in {"none", "done"}

\* C29: after every return of Scan (a setup error, the result after the idle
\* wait or its cancellation, the cancellation in the probe loop) the reader and
\* the collector goroutine both come to their end, unless the process has
\* ended in a panic before.
C29_GoroutinesStopAfterReturn ==
  scanPC = "returned" ~> (scanPanic # "" \/ (Stopped(readerPC) /\ Stopped(collectorPC)))

\* the capture handles Start has opened and Stop has not closed
OpenHandles == {h \in StartIds : handles[h] = "open"}

\* C30: an engine never has more than one goroutine of spoofLoop running and
\* never more than one open capture handle; Start on an engine that is running
\* adds neither.
C30_OneLoopAndOneHandle == Cardinality(Live) <= 1 /\ Cardinality(OpenHandles) <= 1

\* the caller makes a Stop call in this step
StopCall == hist'.stops = hist.stops + 1

\* a Stop call on an engine that is not running writes no frame, closes neither
\* the channel nor a handle, does not panic, and has returned
C31_IdleStopChangesNothing ==
  (StopCall /\ ~isRunning) =>
    /\ hist'.restoreLog = hist.restoreLog /\ hist'.tickLog = hist.tickLog
    /\ hist'.stopCall = hist.stopCall
    /\ handles' = handles /\ handle' = handle
    /\ stopChan' = stopChan /\ isRunning' = isRunning /\ tasks' = tasks
    /\ crashed' = crashed
    /\ callerPC' = "idle"

\* after one Start, the stop channel is never closed a second time
C31_SignalledOnce == hist.starts <= 1 => crashed # "close of closed channel"

\* one Start and two Stop calls, the second returned: the restoration frames
\* attempted are the six of the one Stop call that found the engine running
C31_SixFramesOverTwoStops ==
  (hist.starts = 1 /\ hist.stops = 2 /\ callerPC = "idle" /\ crashed = ""
   /\ hist.stopCall = "returned") =>
    /\ Len(hist.restoreLog) = 2 * CleanupRounds
    /\ stopChan = "closed"

\* C31: Stop on an engine that is not running (never started, or stopped
\* already) is a no-op: it writes no frame, closes no handle and does not
\* panic; two Stop calls after one Start attempt six restoration frames in
\* all and close the stop channel once.
C31_StopWhenNotRunningIsNoOp ==
  /\ [](C31_SignalledOnce /\ C31_SixFramesOverTwoStops)
  /\ [][C31_IdleStopChangesNothing]_vars

\* a Start that opened its handle, a Stop that ran its cleanup to the end, and
\* one more Stop that has returned, the engine not running
C31_Witness ==
  /\ hist.starts = 1 /\ hist.stops = 2 /\ callerPC = "idle" /\ crashed = ""
  /\ hist.stopCall = "returned" /\ Len(hist.restoreLog) = 2 * CleanupRounds
  /\ ~isRunning /\ stopChan = "closed" /\ handle # 0 /\ handles[handle] = "closed"

\* the caller makes a Start call in this step and pcap.OpenLive fails
StartFailed == hist'.starts = hist.starts + 1 /\ handle' = 0

\* what C32 says of a failed Start and of the Stop call after it
C32_AfterFailedStart ==
  /\ StartFailed => (~isRunning' /\ tasks' = tasks /\ crashed' = "")
  /\ (StopCall /\ handle = 0) =>
       (hist'.restoreLog = hist.restoreLog /\ crashed' = "" /\ callerPC' = "idle")

\* C32: when pcap.OpenLive fails in Start, Start returns with the engine not
\* marked running and no spoofLoop goroutine launched, and a Stop call made
\* after it writes no frame.
C32_FailedStartLeavesEngineIdle == [][C32_AfterFailedStart]_vars

\* the same for a Start call made on an engine that is not running
C32_OnIdleEngine == [][~isRunning => C32_AfterFailedStart]_vars

\* the record it processes
Processed == adHist'.seen[Len(adHist'.seen)].pkt

\* the alerts of one type the step raises
RaisedNow(type) ==
  SelectSeq(SubSeq(adHist'.raised, Len(adHist.raised) + 1, Len(adHist'.raised)),
            LAMBDA a : a.Type = type)

\* the broadcast window has begun and began no more than a second ago
InBroadcastWindow ==
  ad.broadcastWindow # ZeroTime /\ clock - ad.broadcastWindow <= Seconds(1)

\* the broadcast records among the first n processed, from instant t on
BroadcastsSince(seen, t) ==
  {i \in 1 .. Len(seen) : seen[i].pkt.EthDst = BroadcastMAC /\ seen[i].at >= t}

\* a broadcast record is counted in the window it falls in, one that comes
\* more than a second after the window's start begins a window with count 1;
\* a count above the threshold raises the alert and begins a window at 0
C33_BroadcastIsCountedInItsWindow ==
  (Processing /\ Processed.EthDst = BroadcastMAC) =>
    LET count == IF InBroadcastWindow THEN ad.broadcastCount + 1 ELSE 1
        start == IF InBroadcastWindow THEN ad.broadcastWindow ELSE clock
    IN IF count > ad.config.BroadcastThreshold
       THEN /\ Len(RaisedNow("BROADCAST_STORM")) = 1
            /\ ad'.broadcastCount = 0 /\ ad'.broadcastWindow = clock
       ELSE /\ Len(RaisedNow("BROADCAST_STORM")) = 0
            /\ ad'.broadcastCount = count /\ ad'.broadcastWindow = start

\* a record that is not a broadcast leaves the counter and the window alone
C33_OthersLeaveTheWindow ==
  (Processing /\ Processed.EthDst # BroadcastMAC) =>
    /\ ad'.broadcastCount = ad.broadcastCount
    /\ ad'.broadcastWindow = ad.broadcastWindow
    /\ Len(RaisedNow("BROADCAST_STORM")) = 0

\* an alert is raised only by a record that has more than BroadcastThreshold
\* broadcast records, itself included, in the second that ends with it
C33_AlertOnlyWithinASecond ==
  (Processing /\ Len(RaisedNow("BROADCAST_STORM")) > 0) =>
    Cardinality(BroadcastsSince(adHist'.seen, clock - Seconds(1)))
      > ad.config.BroadcastThreshold

\* the counter never exceeds the broadcast records processed in the second
\* after the window's start
C33_CountsOnlyTheWindow ==
  ad.broadcastWindow # ZeroTime =>
    ad.broadcastCount <=
      Cardinality({i \in BroadcastsSince(adHist.seen, ad.broadcastWindow) :
                     adHist.seen[i].at <= ad.broadcastWindow + Seconds(1)})

\* C33: the broadcast counter counts the broadcast records processed no more
\* than one second after the window's start: one processed exactly a second
\* after it is counted in the same window, the first processed later than
\* that begins a new window at its instant with count 1. A BROADCAST_STORM
\* alert is raised only when more than BroadcastThreshold broadcast records
\* were processed within a second, and other records change neither the
\* counter nor the window.
C33_BroadcastWindowIsOneSecond ==
  /\ []C33_CountsOnlyTheWindow
  /\ [][/\ C33_BroadcastIsCountedInItsWindow
        /\ C33_OthersLeaveTheWindow
        /\ C33_AlertOnlyWithinASecond]_vars

\* threshold 2: a broadcast opens the window at 0, a record that is none
\* follows, a second broadcast exactly a second later is counted as the
\* window's second, and a third, more than a second after the window's start,
\* begins a new window with count 1 and raises nothing
C33_Witness ==
  /\ traffic = "window" /\ ad.config.BroadcastThreshold = 2
  /\ Len(adHist.seen) = 4
  /\ adHist.seen[1] = [pkt |-> BroadcastRecord, at |-> 0]
  /\ adHist.seen[2].pkt = QuietRecord
  /\ adHist.seen[3] = [pkt |-> BroadcastRecord, at |-> Seconds(1)]
  /\ adHist.seen[4] = [pkt |-> BroadcastRecord, at |-> Seconds(1) + 1]
  /\ ad.broadcastCount = 1 /\ ad.broadcastWindow = Seconds(1) + 1
  /\ adHist.raised = <<>>

\* the records that count for an alert's counter: the broadcast records for
\* BROADCAST_STORM, the records of the alert's source for POSSIBLE_DOS
Matches(a, pkt) ==
  IF a.Type = "BROADCAST_STORM" THEN pkt.EthDst = BroadcastMAC ELSE pkt.SrcIP = a.Source

\* the threshold an alert's counter is compared with
ThresholdOf(a) ==
  IF a.Type = "BROADCAST_STORM" THEN ad.config.BroadcastThreshold
                                ELSE ad.config.DoSThreshold

\* the alerts i < j are two consecutive ones of the same kind and source
Consecutive(i, j) ==
  LET a == adHist.raised[i]
      b == adHist.raised[j]
  IN /\ i < j /\ a.Type = b.Type /\ a.Source = b.Source
     /\ \A k \in i + 1 .. j - 1 :
          ~(adHist.raised[k].Type = a.Type /\ adHist.raised[k].Source = a.Source)

\* after every call the counters are within their thresholds
C34_CountersWithinThresholds ==
  /\ ad.broadcastCount \in 0 .. ad.config.BroadcastThreshold
  /\ \A ip \in DOMAIN ad.ipPacketCount :
       ad.ipPacketCount[ip] \in 0 .. ad.config.DoSThreshold

\* a call raises at most one alert of a kind; the alert reports a count of
\* threshold + 1 and leaves the counter at 0 and the window at the instant of
\* the alert; a matching record that raises none is counted
C34_AlertResetsCounter ==
  Processing =>
    LET storms == RaisedNow("BROADCAST_STORM")
        floods == RaisedNow("POSSIBLE_DOS")
        src == Processed.SrcIP
    IN /\ Len(storms) <= 1 /\ Len(floods) <= 1
       /\ Len(storms) = 1 =>
            /\ storms[1].Detail = ad.config.BroadcastThreshold + 1
            /\ Processed.EthDst = BroadcastMAC
            /\ ad'.broadcastCount = 0 /\ ad'.broadcastWindow = clock
       /\ (Len(storms) = 0 /\ Processed.EthDst = BroadcastMAC) => ad'.broadcastCount >= 1
       /\ Len(floods) = 1 =>
            /\ floods[1].Detail = ad.config.DoSThreshold + 1
            /\ floods[1].Source = src /\ src # ""
            /\ ad'.ipPacketCount[src] = 0 /\ ad'.ipWindow[src] = clock
       /\ (Len(floods) = 0 /\ src # "") => ad'.ipPacketCount[src] >= 1

\* between two consecutive alerts of one kind and source, the second's record
\* included, at least threshold + 1 matching records were processed
C34_AlertsAreApart ==
  \A i, j \in 1 .. Len(adHist.raised) :
    Consecutive(i, j) =>
      Cardinality({n \in adHist.raisedAt[i] + 1 .. adHist.raisedAt[j] :
                     Matches(adHist.raised[j], adHist.seen[n].pkt)})
        >= ThresholdOf(adHist.raised[j]) + 1

CurrentWindow ==
  SubSeq(statsHist.processed, statsHist.resetAt + 1, Len(statsHist.processed))

\* the records of the windows that resetting GetRates calls have consumed
ConsumedWindows == SubSeq(statsHist.processed, 1, statsHist.resetAt)

\* the packets a returned packet rate stands for: rate * seconds
ReportedPackets(pps, duration) ==
  IF pps.den = 0 THEN 0 ELSE (pps.num * duration) \div (pps.den * TicksPerSecond)

\* every record counted is in the current window or in a consumed one, with
\* its bytes and as one packet
C35_WindowsPartitionTheRecords ==
  /\ stats.windowPackets = Len(CurrentWindow)
  /\ stats.windowBytes = SumLength(CurrentWindow)
  /\ stats.totalBytes = SumLength(ConsumedWindows) + stats.windowBytes
  /\ Len(statsHist.processed) = Len(ConsumedWindows) + stats.windowPackets

\* a GetRates call with time elapsed returns the rates of exactly the current
\* window and empties it; one with no time elapsed returns (0, 0) and leaves
\* the window and the records consumed so far as they are
C35_RatesConsumeTheWindow ==
  statsOut'.op = "GetRates" =>
    LET duration == clock - stats.lastTick
    IN IF duration = 0
       THEN /\ statsOut'.val = <<Zero, Zero>>
            /\ stats' = stats /\ statsHist' = statsHist
       ELSE /\ ReportedBytes(statsOut'.val[1], duration) = SumLength(CurrentWindow)
            /\ ReportedPackets(statsOut'.val[2], duration) = Len(CurrentWindow)
            /\ stats'.windowBytes = 0 /\ stats'.windowPackets = 0
            /\ statsHist'.resetAt = Len(statsHist.processed)
            /\ stats'.totalBytes = stats.totalBytes

\* C35: in every interleaving of ProcessPacket and GetRates calls each record
\* counted belongs to exactly one window of GetRates: totalBytes is the bytes
\* of the windows consumed by resetting calls plus windowBytes, the number of
\* records counted is the packets of those windows plus windowPackets, and a
\* GetRates call that returns without resetting consumes nothing.
C35_EachRecordInOneRatesWindow ==
  []C35_WindowsPartitionTheRecords /\ [][C35_RatesConsumeTheWindow]_vars

\* a record was counted and consumed by a resetting GetRates call, a second
\* one was counted while the first call was still in the detector, and a
\* GetRates call with no time elapsed has left it in the window
C35_Witness ==
  /\ traffic = "concurrent"
  /\ Len(statsHist.processed) = 2 /\ statsHist.resetAt = 1
  /\ stats.windowPackets = 1 /\ stats.windowBytes = statsHist.processed[2].Length
  /\ stats.totalBytes > stats.windowBytes
  /\ statsPC["g1"] = "detect" /\ statsPC["g2"] = "detect"
  /\ statsOut = Output("GetRates", 0, <<Zero, Zero>>)

\* the name a record's protocol is counted under
CountedUnder(r) == IF r.Protocol = "" THEN "Unknown" ELSE r.Protocol

\* the names the records counted so far are counted under
ProtocolsSeen ==
  {CountedUnder(statsHist.processed[i]) : i \in 1 .. Len(statsHist.processed)}

\* the records counted under one name
RecordsOf(name) ==
  {i \in 1 .. Len(statsHist.processed) : CountedUnder(statsHist.processed[i]) = name}

RECURSIVE SumCount(_)
SumCount(entries) ==
  IF entries = <<>> THEN 0 ELSE entries[1].Count + SumCount(Tail(entries))

\* C36: GetProtocolStats returns exactly one entry for each protocol seen,
\* the records without protocol counted under "Unknown", each entry with the
\* number of its records, in an order in which no count is larger than one
\* before it; the counts add up to the number of records counted.
C36_ProtocolStatsCountEveryRecord ==
  statsOut.op = "GetProtocolStats" =>
    LET list == statsOut.val
    IN /\ {list[i].Protocol : i \in 1 .. Len(list)} = ProtocolsSeen
       /\ Len(list) = Cardinality(ProtocolsSeen)
       /\ \A i \in 1 .. Len(list) :
            list[i].Count = Cardinality(RecordsOf(list[i].Protocol))
       /\ \A i, j \in 1 .. Len(list) : i < j => list[i].Count >= list[j].Count
       /\ SumCount(list) = Len(statsHist.processed)

\* a TCP record, then one without protocol, one named Unknown and another
\* without: the list has Unknown with 3 before TCP with 1
C36_Witness ==
  /\ traffic = "protocols"
  /\ Len(statsHist.processed) = 4
  /\ statsHist.processed[1].Protocol = "TCP" /\ statsHist.processed[2].Protocol = ""
  /\ statsHist.processed[3].Protocol = "Unknown" /\ statsHist.processed[4].Protocol = ""
  /\ statsOut.op = "GetProtocolStats"
  /\ statsOut.val = <<[Protocol |-> "Unknown", Count |-> 3], [Protocol |-> "TCP", Count |-> 1]>>

\* C37: a record without a source address raises no alert: no
\* UNSECURE_PROTOCOL and no POSSIBLE_DOS alert with an empty Source is ever
\* passed to addAlert or held in the alert history, whatever the record's
\* destination port.
C37_NoAlertWithoutSource ==
  /\ \A i \in 1 .. Len(adHist.raised) :
       adHist.raised[i].Type \in {"UNSECURE_PROTOCOL", "POSSIBLE_DOS"}
         => adHist.raised[i].Source # ""
  /\ \A i \in 1 .. Len(ad.alerts) :
       ad.alerts[i].Type \in {"UNSECURE_PROTOCOL", "POSSIBLE_DOS"}
         => ad.alerts[i].Source # ""

\* the part of C37 that is about the DoS rule
C37_NoDoSAlertWithoutSource ==
  \A i \in 1 .. Len(adHist.raised) :
    adHist.raised[i].Type = "POSSIBLE_DOS" => adHist.raised[i].Source # ""

\* the engine is Active: marked running, or inside the Stop call that
\* restores the network
Active == isRunning \/ hist.stopCall = "running"

C38_ForwardingWhileActive == Active => main.forwarding

C38_ForwardingOffAtExit == main.pc = "exited" => ~main.forwarding

\* C38: in MITM mode IP forwarding is enabled as long as the engine is Active
\* (from before Start until Stop has finished its restoration), and whenever
\* the program ends after it enabled IP forwarding, also when NewEngine or
\* Start failed, it has disabled IP forwarding again.
C38_ForwardingFollowsTheEngine == C38_ForwardingWhileActive /\ C38_ForwardingOffAtExit

\* main returned from the TUI and has run both deferred calls
C38_NormalExit ==
  main.pc = "exited" /\ main.exit = "return" /\ hist.stopCall = "returned"

\* the kind of the field a host name of the capture was taken from
FieldOf(hostname) ==
  CASE hostname = SniName -> "SNI"
    [] hostname = DnsName -> "DNS"
    [] hostname = HttpName -> "HTTP"
    [] OTHER -> ""

\* C39: every entry of the domain log has as its Source the kind of the field
\* convertToModel took its host name from: SNI for a TLS server name, DNS for
\* a DNS query name, HTTP for an HTTP Host header, whatever the packet's
\* destination port and transport.
C39_SourceIsTheFieldOfTheName ==
  \A i \in 1 .. Len(stats.domainLog) :
    stats.domainLog[i].Source = FieldOf(stats.domainLog[i].Hostname)

\* the same for the packets on the port and transport usual for their field
C39_UsualPorts ==
  \A i \in 1 .. Len(statsHist.processed) :
    LET r == statsHist.processed[i]
    IN /\ (FieldOf(r.Hostname) = "SNI" /\ r.DstPort = 443) => DomainSource(r) = "SNI"
       /\ (FieldOf(r.Hostname) = "DNS" /\ r.DstPort = 53) => DomainSource(r) = "DNS"
       /\ (FieldOf(r.Hostname) = "HTTP" /\ r.DstPort = 80 /\ r.Protocol = "TCP")
             => DomainSource(r) = "HTTP"

\* C40: after every ProcessPacket call of the detector, with or without a
\* cleanup pass, ipPacketCount and ipWindow have the same keys: a source
\* address has a counter exactly when it has a window start, and a pass
\* removes both or neither.
C40_CountersAndWindowsShareKeys == DOMAIN ad.ipPacketCount = DOMAIN ad.ipWindow

\* a record from IPA at the start, one from IPB a second later, and a third
\* record two seconds after that, with a pass: the entries of IPA are gone
\* from both maps, those of IPB are in both
C40_Witness ==
  /\ traffic = "cleanup"
  /\ Len(adHist.seen) = 3
  /\ adHist.seen[1].pkt.SrcIP = IPA /\ adHist.seen[1].at = 0
  /\ adHist.seen[2] = [pkt |-> FloodRecord(IPB), at |-> Seconds(1)]
  /\ adHist.seen[3].at = Seconds(3) /\ adHist.seen[3].pkt.SrcIP = ""
  /\ ad.lastCleanup = Seconds(3)
  /\ DOMAIN ad.ipWindow = {IPB} /\ DOMAIN ad.ipPacketCount = {IPB}
====
